---- MODULE Spec2Model ----
(***************************************************************************)
(* State-machine model of ProcessMonitor_v2:                               *)
(*   - the process supervisor  (src/main.go: monitorProcess, startProcess, *)
(*     checkExcludeProcesses, isProcessRunning, killExistingProcesses);    *)
(*   - the registry enforcer   (src/registry_monitor.go: MonitorRegistry,  *)
(*     compareValues, setRegistryValue, convertToUint32).                  *)
(* Spec         is the process supervisor with its host environment.       *)
(* SpecReg      is the registry enforcer with an external registry writer. *)
(* SpecRoot     is main with the tasks it starts, seen from main.          *)
(* SpecRootLive is SpecRoot with the tasks making progress.                *)
(* SpecCodec    is the value codec called on its own.                      *)
(***************************************************************************)
EXTENDS Integers, Sequences, FiniteSets, TLC

VARIABLES
    \* ---- process supervisor (one monitorProcess task) ----
    cfg,            \* ProcessConfig of the task (immutable after Init)
    pc,             \* position of the task inside monitorProcess / startProcess
    currentCmd,     \* "nil" or "cmd": the owned *exec.Cmd handle
    isRestarting,   \* local flag of monitorProcess
    isRestart,      \* argument of the running startProcess call
    ctxDone,        \* the shared context has been cancelled
    host,           \* the host as the supervisor can observe it (see InitHost)
    \* ---- bookkeeping of the run (history, not program state) ----
    ticks,          \* poll ticks taken so far
    envEvents,      \* host events so far
    att,            \* the current start attempt: what the process table really held
    lastSpawn,      \* the last successful cmd.Start
    spawnCount,     \* number of successful cmd.Start
    kills,          \* which kinds of Kill the task has issued
    entryResult,    \* what the entry phase of monitorProcess did
    refusal,        \* bookkeeping since the last start refused by exclusion
    cyc,            \* bookkeeping of the current / last poll cycle
    \* ---- registry enforcer (one MonitorRegistry task) ----
    rcfg,           \* RegistryMonitor config of the task (immutable after Init)
    rpc,            \* position of the task inside MonitorRegistry
    valueMap,       \* the snapshot: value name -> Go value (or no entry)
    key,            \* the key handle k held: "invalid", "query", "set", "all"
    idx,            \* index into config.Values of the value being processed
    changed,        \* local of the poll cycle
    changedValues,  \* local of the poll cycle
    hasExpectValueMismatch, \* local of the poll cycle
    typeMismatch,   \* local of the value being processed
    attempt,        \* restore loop counter
    lastErr,        \* restore loop: lastErr != nil
    rctxDone,       \* the enforcer's context has been cancelled
    \* ---- the registry key on the host ----
    reg,            \* value name -> stored value (kind, data) or absent
    acl,            \* access the key grants the monitor: "none", "ro", "rw"
    \* ---- bookkeeping of the run (history, not program state) ----
    polls,          \* poll ticks taken so far
    regEvents,      \* external registry events so far
    seeded,         \* value name -> what startup found for it
    regAtTick,      \* the registry as it was when the cycle's tick fired
    observed,       \* value name -> the stored value the cycle's poll read
    rcyc,           \* bookkeeping of the current / last poll cycle
    cmdLog,         \* the command launched by the cycle, with its environment
    \* ---- supervision root (main) and the tasks it starts ----
    config,         \* main's Config: per target and per registry entry, Enable
    mainPc,         \* position of main
    mi,             \* index of the loop main is in
    procTask,       \* process target -> where its monitorProcess task is
    regTask,        \* registry entry -> where its MonitorRegistry task is
    wg,             \* counter of the sync.WaitGroup
    cancelled,      \* cancel() has been called on the shared context
    loaded,         \* bookkeeping: the configuration as the file gave it
    unfinished,     \* bookkeeping: sequences in progress at cancel() and not completed since
    \* ---- a call of the value codec ----
    args,           \* the arguments of the call: actual, expect, valueType
    ret,            \* what compareValues and setRegistryValue returned
    called          \* the call has been made

regVars == <<rcfg, rpc, valueMap, key, idx, changed, changedValues,
             hasExpectValueMismatch, typeMismatch, attempt, lastErr, rctxDone,
             reg, acl, polls, regEvents, seeded, regAtTick, observed, rcyc,
             cmdLog>>

procVars == <<cfg, pc, currentCmd, isRestarting, isRestart, ctxDone, host,
              ticks, envEvents, att, lastSpawn, spawnCount, kills,
              entryResult, refusal, cyc>>

rootVars == <<config, mainPc, mi, procTask, regTask, wg, cancelled, loaded, unfinished>>

codecVars == <<args, ret, called>>

vars == <<procVars, regVars, rootVars, codecVars>>

----------------------------------------------------------------------------
(* Bounds of the model *)

MaxTicks == 2
MaxEnvEvents == 2
MaxPolls == 2
MaxRegEvents == 2
NumProcesses == 2
NumRegistryMonitors == 2

----------------------------------------------------------------------------
(* Configuration *)

ExclNames == {"notepad.exe"}

TargetName == "app.exe"

\* The probe settings tried: (restart_delay, ports, health_checks).
Probes ==
    { <<0, <<>>, <<>>>>,
      <<1, <<80>>, <<>>>>,
      <<0, <<>>, <<"http://localhost/health">>>>,
      <<1, <<80>>, <<"http://localhost/health">>>> }

\* ProcessConfig (src/main.go), the fields the supervisor reads.
ProcessConfig ==
    { [ ExcludeProcesses |-> e, RestartCommand |-> r, KillOnExit |-> k,
        RestartDelay |-> p[1], Ports |-> p[2], HealthChecks |-> p[3] ] :
      e \in {{}, ExclNames}, r \in {"", "restart.bat"}, k \in BOOLEAN,
      p \in Probes }

----------------------------------------------------------------------------
(* Process Observer and Exclusion Gate *)

\* Some OS process has filepath.Base(config.Name) in its exe path or cmdline.
NameMatched == host.others \/ (host.ownedAlive /\ host.ownedMatches)

\* isProcessRunning(name): (running, err).
isProcessRunning ==
    IF ~host.tableOK THEN [running |-> FALSE, err |-> TRUE]
    ELSE [running |-> NameMatched, err |-> FALSE]

\* A gate that always reports "none found" (a reused stale answer).
checkExcludeProcessesStale(excludeProcesses) ==
    [has |-> FALSE, found |-> {}, enumerated |-> FALSE]

\* A gate that refuses the start when it cannot enumerate the process table.
checkExcludeProcessesFailClosed(excludeProcesses) ==
    IF excludeProcesses = {}
    THEN [has |-> FALSE, found |-> {}, enumerated |-> FALSE]
    ELSE IF ~host.tableOK
    THEN [has |-> TRUE, found |-> excludeProcesses, enumerated |-> TRUE]
    ELSE LET foundProcesses == excludeProcesses \cap host.exclRunning
         IN  [has |-> foundProcesses # {}, found |-> foundProcesses,
              enumerated |-> TRUE]

\* checkExcludeProcesses(names): (anyFound, foundNames); enumerated tells
\* whether process.Processes() was called.
checkExcludeProcesses(excludeProcesses) ==
    IF excludeProcesses = {}
    THEN [has |-> FALSE, found |-> {}, enumerated |-> FALSE]
    ELSE IF ~host.tableOK
    THEN [has |-> FALSE, found |-> {}, enumerated |-> TRUE]
    ELSE LET foundProcesses == excludeProcesses \cap host.exclRunning
         IN  [has |-> foundProcesses # {}, found |-> foundProcesses,
              enumerated |-> TRUE]

\* What the process table really holds for the exclusion list at this instant.
ExclusionTruth ==
    IF cfg.ExcludeProcesses \cap host.exclRunning # {}
    THEN (IF host.tableOK THEN "present" ELSE "present_enumfail")
    ELSE "clear"

\* The executable startProcess launches.
processName == IF cfg.RestartCommand # "" THEN cfg.RestartCommand ELSE TargetName

NoAttempt == [check |-> "unchecked", enumerated |-> FALSE]

NoCycle == [afterRefusal |-> FALSE, clean |-> FALSE, spawned |-> FALSE]

NoRefusal == [pending |-> FALSE, ticked |-> FALSE, early |-> FALSE]

InCycle == pc \notin {"entry", "select", "done"}

----------------------------------------------------------------------------
(* Init *)

InitHost ==
    [ ownedAlive   : {FALSE},      \* the process behind the last cmd.Start is alive
      ownedMatches : {FALSE},      \* ... and its exe/cmdline contains the target's name
      others       : BOOLEAN,      \* some other process matches the target's name
      tableOK      : {TRUE},       \* process.Processes() succeeds
      spawnOK      : {TRUE},       \* cmd.Start() of the executable succeeds
      exclRunning  : SUBSET ExclNames,  \* exclusion names with a matching process
      portUp       : BOOLEAN,      \* the configured port accepts connections
      healthUp     : {TRUE} ]      \* the configured health URL answers 200

InitProc ==
    /\ cfg \in ProcessConfig
    /\ pc = "entry"
    /\ currentCmd = "nil"
    /\ isRestarting = FALSE
    /\ isRestart = FALSE
    /\ ctxDone = FALSE
    /\ host \in InitHost
    /\ ticks = 0
    /\ envEvents = 0
    /\ att = NoAttempt
    /\ lastSpawn = [exe |-> "", isRestart |-> FALSE, check |-> "none"]
    /\ spawnCount = 0
    /\ kills = {}
    /\ entryResult = "none"
    /\ refusal = NoRefusal
    /\ cyc = NoCycle

----------------------------------------------------------------------------
(* Process Supervisor: monitorProcess and startProcess, step by step *)

\* A failed start that is retried on the spot instead of at the next tick.
StartFailedRetry ==
    /\ currentCmd' = IF isRestart THEN "nil" ELSE currentCmd
    /\ isRestarting' = FALSE
    /\ pc' = "sp_running"
    /\ cyc' = [cyc EXCEPT !.clean = FALSE]

\* The caller's handling of a failed startProcess (entry: lines 319-324,
\* restart: lines 430-436 and 444), then back to the select loop.
StartFailed ==
    /\ currentCmd' = IF isRestart THEN "nil" ELSE currentCmd
    /\ isRestarting' = FALSE
    /\ pc' = "select"
    /\ cyc' = [cyc EXCEPT !.clean = FALSE]

\* What the process table held when the task started.
EntryTruth ==
    IF ~host.tableOK THEN "check_failed"
    ELSE IF NameMatched THEN "already_running" ELSE "not_running"

\* An entry phase that calls startProcess without looking at the process table.
MonitorEntryNoCheck ==
    /\ pc = "entry"
    /\ entryResult' = EntryTruth
    /\ pc' = "sp_running"
    /\ isRestart' = FALSE
    /\ att' = NoAttempt
    /\ UNCHANGED <<regVars, rootVars, codecVars>>
    /\ UNCHANGED <<cfg, currentCmd, isRestarting, ctxDone, host, ticks,
                   envEvents, lastSpawn, spawnCount, kills, refusal, cyc>>

\* monitorProcess, entry phase (lines 309-318): start only if not already running.
MonitorEntry ==
    /\ pc = "entry"
    /\ entryResult' = EntryTruth
    /\ LET r == isProcessRunning IN
       IF r.err \/ r.running
       THEN /\ pc' = "select"
            /\ UNCHANGED <<att, isRestart>>
       ELSE /\ pc' = "sp_running"
            /\ isRestart' = FALSE
            /\ att' = NoAttempt
    /\ UNCHANGED <<regVars, rootVars, codecVars>>
    /\ UNCHANGED <<cfg, currentCmd, isRestarting, ctxDone, host, ticks,
                   envEvents, lastSpawn, spawnCount, kills, refusal, cyc>>

\* startProcess, first check: refuse when the target is already running.
StartCheckRunning ==
    /\ pc = "sp_running"
    /\ LET r == isProcessRunning IN
       IF r.err \/ r.running
       THEN StartFailed
       ELSE /\ pc' = "sp_excl"
            /\ UNCHANGED <<currentCmd, isRestarting, cyc>>
    /\ UNCHANGED <<regVars, rootVars, codecVars>>
    /\ UNCHANGED <<cfg, isRestart, ctxDone, host, ticks, envEvents, att,
                   lastSpawn, spawnCount, kills, entryResult, refusal>>

\* startProcess, second check: the exclusion gate, evaluated on the spot.
StartCheckExclude ==
    /\ pc = "sp_excl"
    /\ LET g == checkExcludeProcesses(cfg.ExcludeProcesses) IN
       /\ att' = [check |-> ExclusionTruth, enumerated |-> g.enumerated]
       /\ IF g.has
          THEN /\ StartFailed
               /\ refusal' = [pending |-> TRUE, ticked |-> FALSE, early |-> FALSE]
          ELSE /\ pc' = "sp_spawn"
               /\ UNCHANGED <<currentCmd, isRestarting, refusal, cyc>>
    /\ UNCHANGED <<regVars, rootVars, codecVars>>
    /\ UNCHANGED <<cfg, isRestart, ctxDone, host, ticks, envEvents,
                   lastSpawn, spawnCount, kills, entryResult>>

\* startProcess, cmd.Start(), and the caller's handling of the result.
StartSpawn ==
    /\ pc = "sp_spawn"
    /\ IF host.spawnOK
       THEN /\ currentCmd' = "cmd"
            /\ isRestarting' = FALSE
            /\ pc' = "select"
            /\ host' = [host EXCEPT !.ownedAlive = TRUE,
                                    !.ownedMatches = (processName = TargetName)]
            /\ lastSpawn' = [exe |-> processName, isRestart |-> isRestart,
                             check |-> att.check]
            /\ spawnCount' = spawnCount + 1
            /\ refusal' = [pending |-> FALSE, ticked |-> refusal.ticked,
                           early |-> refusal.pending /\ ~refusal.ticked]
            /\ cyc' = [cyc EXCEPT !.spawned = TRUE]
       ELSE /\ StartFailed
            /\ UNCHANGED <<host, lastSpawn, spawnCount, refusal>>
    /\ UNCHANGED <<regVars, rootVars, codecVars>>
    /\ UNCHANGED <<cfg, isRestart, ctxDone, ticks, envEvents, att, kills,
                   entryResult>>

\* Lines 344-371: with or without a handle the task ends up asking
\* isProcessRunning (cmd.ProcessState stays nil until Wait, which the task
\* calls only when it drops the handle), its error ignored.
processRunning == isProcessRunning.running

\* Lines 376-388: some configured port refuses the connection.
portsFail == processRunning /\ Len(cfg.Ports) > 0 /\ ~host.portUp

\* Health checks that are never looked at.
healthFailIgnored == FALSE

\* Lines 391-403: some configured health check fails (skipped after a port failure).
healthFail ==
    processRunning /\ ~portsFail /\ Len(cfg.HealthChecks) > 0 /\ ~host.healthUp

needRestart == ~processRunning \/ portsFail \/ healthFail

\* A tick handled on its own, while the task may be inside the restart delay,
\* and without looking at isRestarting.
PollTickConcurrent ==
    /\ pc \in {"select", "delay"}
    /\ ticks < MaxTicks
    /\ ticks' = ticks + 1
    /\ isRestarting' = needRestart
    /\ pc' = IF needRestart THEN "kill_current" ELSE "select"
    /\ refusal' = [refusal EXCEPT !.ticked = TRUE]
    /\ cyc' = [afterRefusal |-> refusal.pending,
               clean |-> /\ host.tableOK
                         /\ ~NameMatched
                         /\ cfg.ExcludeProcesses \cap host.exclRunning = {},
               spawned |-> FALSE]
    /\ UNCHANGED <<regVars, rootVars, codecVars>>
    /\ UNCHANGED <<cfg, currentCmd, isRestart, ctxDone, host, envEvents,
                   att, lastSpawn, spawnCount, kills, entryResult>>

\* One firing of ticker.C: the liveness, port and health checks (lines 334-409).
PollTick ==
    /\ pc = "select"
    /\ ticks < MaxTicks
    /\ ticks' = ticks + 1
    /\ IF isRestarting
       THEN UNCHANGED <<pc, isRestarting, cyc, refusal>>
       ELSE /\ isRestarting' = needRestart
            /\ pc' = IF needRestart THEN "kill_current" ELSE "select"
            /\ refusal' = [refusal EXCEPT !.ticked = TRUE]
            /\ cyc' = [afterRefusal |-> refusal.pending,
                       clean |-> /\ host.tableOK
                                 /\ ~NameMatched
                                 /\ cfg.ExcludeProcesses \cap host.exclRunning = {},
                       spawned |-> FALSE]
    /\ UNCHANGED <<regVars, rootVars, codecVars>>
    /\ UNCHANGED <<cfg, currentCmd, isRestart, ctxDone, host, envEvents,
                   att, lastSpawn, spawnCount, kills, entryResult>>

\* Restart, step 1: kill the owned handle and wait for it (lines 411-417).
KillCurrent ==
    /\ pc = "kill_current"
    /\ pc' = "kill_existing"
    /\ IF currentCmd # "nil"
       THEN /\ currentCmd' = "nil"
            /\ host' = [host EXCEPT !.ownedAlive = FALSE]
            /\ kills' = kills \cup {"owned"}
       ELSE UNCHANGED <<currentCmd, host, kills>>
    /\ UNCHANGED <<regVars, rootVars, codecVars>>
    /\ UNCHANGED <<cfg, isRestarting, isRestart, ctxDone, ticks, envEvents,
                   att, lastSpawn, spawnCount, entryResult, refusal, cyc>>

\* killExistingProcesses(name): Kill every process matching the name; a failed
\* enumeration (error ignored) kills nothing.
killExistingProcesses ==
    IF host.tableOK THEN [host EXCEPT !.others = FALSE] ELSE host

\* Restart, step 2: sweep the process table (line 420); without a restart
\* delay the task goes on to startProcess at once.
KillExisting ==
    /\ pc = "kill_existing"
    /\ host' = killExistingProcesses
    /\ kills' = IF host.tableOK /\ host.others THEN kills \cup {"others"} ELSE kills
    /\ cyc' = IF host.tableOK THEN cyc ELSE [cyc EXCEPT !.clean = FALSE]
    /\ pc' = IF cfg.RestartDelay > 0 THEN "delay" ELSE "sp_running"
    /\ isRestart' = TRUE
    /\ att' = NoAttempt
    /\ UNCHANGED <<regVars, rootVars, codecVars>>
    /\ UNCHANGED <<cfg, currentCmd, isRestarting, ctxDone, ticks, envEvents,
                   lastSpawn, spawnCount, entryResult, refusal>>

\* Restart, step 3: time.Sleep(restart_delay) returns (lines 422-426).
RestartDelay ==
    /\ pc = "delay"
    /\ pc' = "sp_running"
    /\ UNCHANGED <<regVars, rootVars, codecVars>>
    /\ UNCHANGED <<cfg, currentCmd, isRestarting, isRestart, ctxDone, host,
                   ticks, envEvents, att, lastSpawn, spawnCount, kills,
                   entryResult, refusal, cyc>>

\* A shutdown that kills the owned process whatever kill_on_exit says.
ShutdownKillsAlways ==
    /\ pc = "select"
    /\ ctxDone
    /\ pc' = "done"
    /\ IF currentCmd # "nil"
       THEN /\ host' = [host EXCEPT !.ownedAlive = FALSE]
            /\ kills' = kills \cup {"shutdown"}
       ELSE UNCHANGED <<host, kills>>
    /\ UNCHANGED <<regVars, rootVars, codecVars>>
    /\ UNCHANGED <<cfg, currentCmd, isRestarting, isRestart, ctxDone, ticks,
                   envEvents, att, lastSpawn, spawnCount, entryResult,
                   refusal, cyc>>

\* case <-ctx.Done() (lines 449-457).
Shutdown ==
    /\ pc = "select"
    /\ ctxDone
    /\ pc' = "done"
    /\ IF cfg.KillOnExit /\ currentCmd # "nil"
       THEN /\ host' = [host EXCEPT !.ownedAlive = FALSE]
            /\ kills' = kills \cup {"shutdown"}
       ELSE UNCHANGED <<host, kills>>
    /\ UNCHANGED <<regVars, rootVars, codecVars>>
    /\ UNCHANGED <<cfg, currentCmd, isRestarting, isRestart, ctxDone, ticks,
                   envEvents, att, lastSpawn, spawnCount, entryResult,
                   refusal, cyc>>

----------------------------------------------------------------------------
(* The host: other programs, the operator, the network *)

taskVars == <<cfg, pc, currentCmd, isRestarting, isRestart, ticks,
              att, lastSpawn, spawnCount, kills, entryResult, refusal>>

HostEvent ==
    /\ envEvents < MaxEnvEvents
    /\ pc # "done"
    /\ envEvents' = envEvents + 1
    /\ cyc' = IF InCycle THEN [cyc EXCEPT !.clean = FALSE] ELSE cyc
    /\ UNCHANGED <<regVars, rootVars, codecVars>>
    /\ UNCHANGED <<taskVars, ctxDone>>

ExclusionStarts ==
    /\ HostEvent
    /\ \E x \in ExclNames \ host.exclRunning :
          host' = [host EXCEPT !.exclRunning = @ \cup {x}]

ExclusionStops ==
    /\ HostEvent
    /\ \E x \in host.exclRunning :
          host' = [host EXCEPT !.exclRunning = @ \ {x}]

OtherInstanceChanges ==
    /\ HostEvent
    /\ host' = [host EXCEPT !.others = ~@]

OwnedExits ==
    /\ HostEvent
    /\ host.ownedAlive
    /\ host' = [host EXCEPT !.ownedAlive = FALSE]

ProcessTableChanges ==
    /\ HostEvent
    /\ host' = [host EXCEPT !.tableOK = ~@]

ExecutableChanges ==
    /\ HostEvent
    /\ host' = [host EXCEPT !.spawnOK = ~@]

PortChanges ==
    /\ HostEvent
    /\ host' = [host EXCEPT !.portUp = ~@]

HealthChanges ==
    /\ HostEvent
    /\ host' = [host EXCEPT !.healthUp = ~@]

\* main: cancel() after the termination signal (lines 600-602).
Cancel ==
    /\ ~ctxDone
    /\ ctxDone' = TRUE
    /\ UNCHANGED <<regVars, rootVars, codecVars>>
    /\ UNCHANGED <<taskVars, host, envEvents, cyc>>

----------------------------------------------------------------------------
(* Registry Value Codec.                                                   *)
(* A Go value (interface{}) is [t |-> dynamic type, v |-> payload]: an     *)
(* integer n has payload <<n>>, a string its characters, where the         *)
(* characters 0..9 are the digits '0'..'9' and 10, 11 are 'a', 'b'; a      *)
(* float64 w.f has payload <<w, f>> (f one decimal digit), a []byte its    *)
(* bytes, a []string its strings, a []interface{} its Go values.           *)

GoNil == [t |-> "nil", v |-> <<>>]
GoInt(n) == [t |-> "int", v |-> <<n>>]
GoUint32(n) == [t |-> "uint32", v |-> <<n>>]
GoString(str) == [t |-> "string", v |-> str]
GoFloat64(w, f) == [t |-> "float64", v |-> <<w, f>>]
GoBytes(b) == [t |-> "[]byte", v |-> b]
GoStrings(strs) == [t |-> "[]string", v |-> strs]
GoList(items) == [t |-> "[]interface{}", v |-> items]

\* The characters '.', '[', ' ' and ']' of a printed value.
Dot == 12
Open == 13
Space == 14
Close == 15

\* No entry in valueMap (the map lookup's exists = false).
NoEntry == [t |-> "noentry", v |-> <<>>]

\* A value stored in the registry, and a value that does not exist.
Stored(kind, data) == [kind |-> kind, data |-> data]
Absent == [kind |-> "NONE", data |-> <<>>]

RECURSIVE Digits(_)
\* The decimal digits of n, as fmt prints an integer.
Digits(n) == IF n < 10 THEN <<n>> ELSE Digits(n \div 10) \o <<n % 10>>

\* fmt.Sprintf("%v", x) of a number or a string.
SprintfScalar(x) ==
    CASE x.t \in {"int", "uint32"} -> Digits(x.v[1])
      [] x.t = "float64" ->
            IF x.v[2] = 0 THEN Digits(x.v[1])
            ELSE Digits(x.v[1]) \o <<Dot, x.v[2]>>
      [] x.t = "string" -> x.v
      [] OTHER -> <<99>>

RECURSIVE Spaced(_)
\* Printed elements with a space between neighbours.
Spaced(printed) ==
    IF Len(printed) = 0 THEN <<>>
    ELSE IF Len(printed) = 1 THEN printed[1]
    ELSE printed[1] \o <<Space>> \o Spaced(Tail(printed))

\* fmt.Sprintf("%v", x): a slice prints as its elements between brackets, a
\* nil interface as "<nil>".
Sprintf(x) ==
    CASE x.t = "[]byte" ->
            <<Open>> \o Spaced([i \in 1..Len(x.v) |-> Digits(x.v[i])]) \o <<Close>>
      [] x.t = "[]string" ->
            <<Open>> \o Spaced(x.v) \o <<Close>>
      [] x.t = "[]interface{}" ->
            <<Open>> \o Spaced([i \in 1..Len(x.v) |-> SprintfScalar(x.v[i])])
                    \o <<Close>>
      [] OTHER -> SprintfScalar(x)

RECURSIVE ScanDigits(_, _)
\* The number spelled by the leading digits of str, continuing from acc.
ScanDigits(str, acc) ==
    IF str = <<>> \/ str[1] \notin 0..9 THEN acc
    ELSE ScanDigits(Tail(str), 10 * acc + str[1])

\* fmt.Sscanf(str, "%d", &num) into a uint64: fails without a leading digit.
Sscanf(str) ==
    IF str = <<>> \/ str[1] \notin 0..9 THEN [ok |-> FALSE, n |-> 0]
    ELSE [ok |-> TRUE, n |-> ScanDigits(str, 0)]

\* uint32(n): the low 32 bits, which for the integers of the model
\* (0 .. 2^31 - 1) are all of n.
Uint32(n) == IF n >= 0 THEN n ELSE n + 2147483647 + 2147483647 + 2

\* A conversion that takes no strings.
convertToUint32NoStrings(val) ==
    CASE val.t = "uint32" -> [ok |-> TRUE, n |-> val.v[1]]
      [] val.t \in {"int", "float64"} -> [ok |-> TRUE, n |-> Uint32(val.v[1])]
      [] OTHER -> [ok |-> FALSE, n |-> 0]

\* convertToUint32(val): (uint32, err).
convertToUint32(val) ==
    CASE val.t = "uint32" -> [ok |-> TRUE, n |-> val.v[1]]
      [] val.t = "int" -> [ok |-> TRUE, n |-> Uint32(val.v[1])]
      [] val.t = "float64" -> [ok |-> TRUE, n |-> Uint32(val.v[1])]
      [] val.t = "string" ->
            LET r == Sscanf(val.v) IN [ok |-> r.ok, n |-> Uint32(r.n)]
      [] OTHER -> [ok |-> FALSE, n |-> 0]

\* convertToUint64(val): (uint64, err).
convertToUint64(val) ==
    CASE val.t \in {"uint32", "int", "float64"} -> [ok |-> TRUE, n |-> val.v[1]]
      [] val.t = "string" -> Sscanf(val.v)
      [] OTHER -> [ok |-> FALSE, n |-> 0]

\* strings.ToLower on the kind strings the configurations use.
ToLower(str) ==
    CASE str = "DWORD" -> "dword"
      [] str = "String" -> "string"
      [] OTHER -> str

\* A conversion that takes every unknown kind for a string.
getRegistryValueTypeLenient(typeName) ==
    LET t == ToLower(typeName) IN
    CASE t = "string" -> "SZ"
      [] t = "expand_string" -> "EXPAND_SZ"
      [] t = "binary" -> "BINARY"
      [] t = "dword" -> "DWORD"
      [] t = "multi_string" -> "MULTI_SZ"
      [] t = "qword" -> "QWORD"
      [] OTHER -> "SZ"

\* getRegistryValueType(typeName): the storage kind, or "error".
getRegistryValueType(typeName) ==
    LET t == ToLower(typeName) IN
    CASE t = "string" -> "SZ"
      [] t = "expand_string" -> "EXPAND_SZ"
      [] t = "binary" -> "BINARY"
      [] t = "dword" -> "DWORD"
      [] t = "multi_string" -> "MULTI_SZ"
      [] t = "qword" -> "QWORD"
      [] OTHER -> "error"

\* getRootKey(rootKeyName): the predefined key, or "error"; the names are
\* matched as written.
getRootKey(rootKeyName) ==
    CASE rootKeyName \in {"HKEY_CLASSES_ROOT", "HKCR"} -> "CLASSES_ROOT"
      [] rootKeyName \in {"HKEY_CURRENT_USER", "HKCU"} -> "CURRENT_USER"
      [] rootKeyName \in {"HKEY_LOCAL_MACHINE", "HKLM"} -> "LOCAL_MACHINE"
      [] rootKeyName \in {"HKEY_USERS", "HKU"} -> "USERS"
      [] rootKeyName \in {"HKEY_CURRENT_CONFIG", "HKCC"} -> "CURRENT_CONFIG"
      [] OTHER -> "error"

\* The []string compareValues makes of a multi_string operand (lines
\* 136-164): the slice itself, a single string, or the printed items of a list.
toStrings(x) ==
    CASE x.t = "[]string" -> [ok |-> TRUE, strs |-> x.v]
      [] x.t = "string" -> [ok |-> TRUE, strs |-> <<x.v>>]
      [] x.t = "[]interface{}" ->
            [ok |-> TRUE, strs |-> [i \in 1..Len(x.v) |-> SprintfScalar(x.v[i])]]
      [] OTHER -> [ok |-> FALSE, strs |-> <<>>]

\* A comparison without the test for a missing expected value.
compareValuesNoNilCheck(actual, expect, valueType) ==
    LET t == ToLower(valueType) IN
         CASE t \in {"string", "expand_string"} ->
                Sprintf(actual) = Sprintf(expect)
           [] t = "dword" ->
                LET a == convertToUint32(actual)
                    e == convertToUint32(expect)
                IN  a.ok /\ e.ok /\ a.n = e.n
           [] t = "qword" ->
                LET a == convertToUint64(actual)
                    e == convertToUint64(expect)
                IN  a.ok /\ e.ok /\ a.n = e.n
           [] t = "binary" ->
                /\ actual.t \in {"[]byte", "string"}
                /\ expect.t \in {"[]byte", "string"}
                /\ actual.v = expect.v
           [] t = "multi_string" ->
                /\ toStrings(actual).ok
                /\ toStrings(expect).ok
                /\ toStrings(actual).strs = toStrings(expect).strs
           [] OTHER -> FALSE

\* compareValues(actual, expect, valueType).
compareValues(actual, expect, valueType) ==
    IF expect.t = "nil" THEN TRUE
    ELSE LET t == ToLower(valueType) IN
         CASE t \in {"string", "expand_string"} ->
                Sprintf(actual) = Sprintf(expect)
           [] t = "dword" ->
                LET a == convertToUint32(actual)
                    e == convertToUint32(expect)
                IN  a.ok /\ e.ok /\ a.n = e.n
           [] t = "qword" ->
                LET a == convertToUint64(actual)
                    e == convertToUint64(expect)
                IN  a.ok /\ e.ok /\ a.n = e.n
           [] t = "binary" ->
                /\ actual.t \in {"[]byte", "string"}
                /\ expect.t \in {"[]byte", "string"}
                /\ actual.v = expect.v
           [] t = "multi_string" ->
                /\ toStrings(actual).ok
                /\ toStrings(expect).ok
                /\ toStrings(actual).strs = toStrings(expect).strs
           [] OTHER -> FALSE

\* setRegistryValue(k, name, valueType, value): the value it stores, or an error.
setRegistryValue(valueType, value) ==
    LET t == ToLower(valueType) IN
    CASE t = "string" ->
            IF value.t = "string"
            THEN [ok |-> TRUE, stored |-> Stored("SZ", value.v)]
            ELSE [ok |-> FALSE, stored |-> Absent]
      [] t = "expand_string" ->
            IF value.t = "string"
            THEN [ok |-> TRUE, stored |-> Stored("EXPAND_SZ", value.v)]
            ELSE [ok |-> FALSE, stored |-> Absent]
      [] t = "qword" ->
            LET c == convertToUint64(value) IN
            IF c.ok THEN [ok |-> TRUE, stored |-> Stored("QWORD", <<c.n>>)]
            ELSE [ok |-> FALSE, stored |-> Absent]
      [] t = "dword" ->
            LET c == convertToUint32(value) IN
            IF c.ok THEN [ok |-> TRUE, stored |-> Stored("DWORD", <<c.n>>)]
            ELSE [ok |-> FALSE, stored |-> Absent]
      [] t = "binary" ->
            IF value.t \in {"[]byte", "string"}
            THEN [ok |-> TRUE, stored |-> Stored("BINARY", value.v)]
            ELSE [ok |-> FALSE, stored |-> Absent]
      [] t = "multi_string" ->
            CASE value.t = "[]string" ->
                    [ok |-> TRUE, stored |-> Stored("MULTI_SZ", value.v)]
              [] value.t = "string" ->
                    [ok |-> TRUE, stored |-> Stored("MULTI_SZ", <<value.v>>)]
              [] value.t = "[]interface{}" ->
                    IF \A i \in 1..Len(value.v) : value.v[i].t = "string"
                    THEN [ok |-> TRUE,
                          stored |-> Stored("MULTI_SZ",
                                       [i \in 1..Len(value.v) |-> value.v[i].v])]
                    ELSE [ok |-> FALSE, stored |-> Absent]
              [] OTHER -> [ok |-> FALSE, stored |-> Absent]
      [] OTHER -> [ok |-> FALSE, stored |-> Absent]

\* The byte count RegQueryValueEx reports for a stored value: UTF-16 with the
\* terminating NUL for strings, 4 for a DWORD.
ByteSize(st) ==
    CASE st.kind \in {"SZ", "EXPAND_SZ"} -> 2 * (Len(st.data) + 1)
      [] st.kind = "DWORD" -> 4
      [] st.kind = "QWORD" -> 8
      [] OTHER -> Len(st.data)

\* k.GetValue(name, nil) of golang.org/x/sys/windows/registry, whose signature
\* is GetValue(name, buf) (n int, valtype uint32, err error): with a nil
\* buffer the first result is the byte count of the stored data, and that is
\* what MonitorRegistry binds to val.
GetValue(handle, stored) ==
    IF handle = "invalid"
    THEN [val |-> GoInt(0), valType |-> "NONE", err |-> "invalid handle"]
    ELSE IF stored = Absent
    THEN [val |-> GoInt(0), valType |-> "NONE", err |-> "ErrNotExist"]
    ELSE [val |-> GoInt(ByteSize(stored)), valType |-> stored.kind, err |-> "nil"]

\* registry.OpenKey(rootKey, path, access) succeeding under the key's ACL.
OpenKey(access) ==
    IF access = "query" THEN acl \in {"ro", "rw"} ELSE acl = "rw"

----------------------------------------------------------------------------
(* Registry Enforcer: configuration, the key on the host, initial state *)

StrAB == <<10, 11>>
StrBA == <<11, 10>>
Str4 == <<4>>

ValueNames == {"v1", "v2"}

\* RegistryValue entries of the configuration: a string with an expected
\* value, a string whose expected value is the text of its own byte count, a
\* DWORD (its kind written in capitals), a value of a kind that does not
\* exist, and a string that is only monitored.
RegistryValue1 ==
    { [Name |-> "v1", Type |-> "string", ExpectValue |-> GoString(StrAB)],
      [Name |-> "v1", Type |-> "string", ExpectValue |-> GoString(Str4)],
      [Name |-> "v1", Type |-> "DWORD", ExpectValue |-> GoInt(4)],
      [Name |-> "v1", Type |-> "text", ExpectValue |-> GoString(StrAB)] }

RegistryValue2 ==
    { [Name |-> "v2", Type |-> "string", ExpectValue |-> GoString(StrAB)],
      [Name |-> "v2", Type |-> "string", ExpectValue |-> GoNil] }

RegistryMonitor ==
    { [RootKey |-> "HKLM", Values |-> <<a, b>>, ExecuteOnChange |-> x,
       Command |-> "notify.cmd"] :
        a \in RegistryValue1, b \in RegistryValue2, x \in BOOLEAN }
    \cup
    { [RootKey |-> rk, Values |-> <<a, b>>, ExecuteOnChange |-> FALSE,
       Command |-> "notify.cmd"] :
        rk \in {"hklm", "HKEY_LOCAL"},
        a \in {[Name |-> "v1", Type |-> "string", ExpectValue |-> GoString(StrAB)]},
        b \in {[Name |-> "v2", Type |-> "string", ExpectValue |-> GoString(StrAB)]} }

\* What an external actor may store under each name.
HostValues(name) ==
    IF name = "v1"
    THEN {Absent, Stored("SZ", StrAB), Stored("SZ", StrBA), Stored("SZ", Str4),
          Stored("DWORD", <<1>>)}
    ELSE {Absent, Stored("SZ", StrAB), Stored("SZ", Str4)}

\* The stored form of a value's expected value.
ExpectStored(vc) == setRegistryValue(vc.Type, vc.ExpectValue).stored

NoCmd == [launched |-> FALSE, changedValues |-> <<>>, match |-> TRUE, env |-> <<>>]

NoRegCycle ==
    [ended |-> FALSE, quiet |-> TRUE, enforced |-> {}, mismatch |-> {},
     writes |-> {}, verified |-> {}, pending |-> {}, marked |-> {}]

Unread == [kind |-> "UNREAD", data |-> <<>>]

RegInitLocals ==
    /\ valueMap = [n \in ValueNames |-> NoEntry]
    /\ key = "invalid"
    /\ idx = 1
    /\ changed = FALSE
    /\ changedValues = <<>>
    /\ hasExpectValueMismatch = FALSE
    /\ typeMismatch = FALSE
    /\ attempt = 1
    /\ lastErr = FALSE
    /\ rctxDone = FALSE
    /\ acl = "rw"
    /\ polls = 0
    /\ regEvents = 0
    /\ seeded = [n \in ValueNames |-> "unread"]
    /\ observed = [n \in ValueNames |-> Unread]
    /\ rcyc = NoRegCycle
    /\ cmdLog = NoCmd

InitReg ==
    /\ rcfg \in RegistryMonitor
    /\ rpc = "start"
    /\ reg \in {r \in [ValueNames -> {Absent, Stored("SZ", StrAB), Stored("SZ", StrBA)}] :
                    r["v2"] # Stored("SZ", StrBA)}
    /\ regAtTick = reg
    /\ RegInitLocals

\* No registry monitor configured.
RegIdle ==
    /\ rcfg = [RootKey |-> "", Values |-> <<>>, ExecuteOnChange |-> FALSE,
               Command |-> ""]
    /\ rpc = "done"
    /\ reg = [n \in ValueNames |-> Absent]
    /\ regAtTick = reg
    /\ RegInitLocals

\* No process configured.
ProcIdle ==
    /\ cfg = CHOOSE c \in ProcessConfig : TRUE
    /\ pc = "done"
    /\ currentCmd = "nil"
    /\ isRestarting = FALSE
    /\ isRestart = FALSE
    /\ ctxDone = FALSE
    /\ host = CHOOSE h \in InitHost : TRUE
    /\ ticks = 0
    /\ envEvents = 0
    /\ att = NoAttempt
    /\ lastSpawn = [exe |-> "", isRestart |-> FALSE, check |-> "none"]
    /\ spawnCount = 0
    /\ kills = {}
    /\ entryResult = "none"
    /\ refusal = NoRefusal
    /\ cyc = NoCycle

----------------------------------------------------------------------------
(* Registry Enforcer: MonitorRegistry, step by step *)

MaxAttempts == 3

regLocals == <<changed, changedValues, hasExpectValueMismatch, typeMismatch,
               attempt, lastErr>>

regHistory == <<polls, regEvents, seeded, regAtTick, observed, rcyc, cmdLog>>

\* The snapshot entry startup derives from the val it read (lines 422-456);
\* no entry when the DWORD conversion fails.
InitialSnapshot(valueType, val) ==
    LET t == ToLower(valueType) IN
    CASE t \in {"string", "expand_string"} -> GoString(Sprintf(val))
      [] t = "dword" ->
            LET c == convertToUint32(val) IN
            IF c.ok THEN GoUint32(c.n) ELSE NoEntry
      [] OTHER -> val

\* A start that goes on to the select loop when the open has failed, to try
\* the key again at the next tick.
RegStartRetry ==
    /\ rpc = "start"
    /\ IF getRootKey(rcfg.RootKey) # "error" /\ OpenKey("set")
       THEN key' = "set" /\ rpc' = "init"
       ELSE key' = "invalid" /\ rpc' = IF acl = "rw" THEN "done" ELSE "select"
    /\ idx' = 1
    /\ UNCHANGED <<rcfg, valueMap, regLocals, rctxDone, reg, acl, regHistory>>
    /\ UNCHANGED <<procVars, rootVars, codecVars>>

\* Resolve the root key (lines 366-370) and open the key with write intent
\* (line 377); give up when either fails.
RegStart ==
    /\ rpc = "start"
    /\ IF getRootKey(rcfg.RootKey) # "error" /\ OpenKey("set")
       THEN key' = "set" /\ rpc' = "init"
       ELSE key' = "invalid" /\ rpc' = "done"
    /\ idx' = 1
    /\ UNCHANGED <<rcfg, valueMap, regLocals, rctxDone, reg, acl, regHistory>>
    /\ UNCHANGED <<procVars, rootVars, codecVars>>

\* One iteration of the startup loop over config.Values (lines 385-457).
RegInitValue ==
    /\ rpc = "init"
    /\ LET vc == rcfg.Values[idx]
           r == GetValue(key, reg[vc.Name])
           s == setRegistryValue(vc.Type, vc.ExpectValue)
       IN  IF getRegistryValueType(vc.Type) = "error"
           THEN /\ seeded' = [seeded EXCEPT ![vc.Name] = "badtype"]
                /\ UNCHANGED <<reg, valueMap>>
           ELSE IF r.err # "nil"
           THEN IF r.err = "ErrNotExist" /\ vc.ExpectValue # GoNil /\ s.ok
                THEN /\ reg' = [reg EXCEPT ![vc.Name] = s.stored]
                     /\ valueMap' = [valueMap EXCEPT ![vc.Name] = vc.ExpectValue]
                     /\ seeded' = [seeded EXCEPT ![vc.Name] = "created"]
                ELSE /\ seeded' = [seeded EXCEPT ![vc.Name] = "unreadable"]
                     /\ UNCHANGED <<reg, valueMap>>
           ELSE /\ valueMap' = [valueMap EXCEPT
                                  ![vc.Name] = InitialSnapshot(vc.Type, r.val)]
                /\ seeded' = [seeded EXCEPT ![vc.Name] =
                                IF vc.ExpectValue = GoNil THEN "monitored"
                                ELSE IF reg[vc.Name] = ExpectStored(vc)
                                THEN "equal" ELSE "differs"]
                /\ UNCHANGED reg
    /\ IF idx < Len(rcfg.Values)
       THEN idx' = idx + 1 /\ rpc' = "init"
       ELSE idx' = 1 /\ rpc' = "select"
    /\ UNCHANGED <<rcfg, key, regLocals, rctxDone, acl, polls, regEvents,
                   regAtTick, observed, rcyc, cmdLog>>
    /\ UNCHANGED <<procVars, rootVars, codecVars>>

\* The values whose restoration sequence in the cycle that has just ended
\* wrote nothing and that still hold the drifted value that cycle read.
LeftDrifted ==
    {n \in rcyc.enforced \ rcyc.writes : rcyc.ended /\ reg[n] = observed[n]}

\* case <-ticker.C: reopen the key read-only and reset the cycle's locals
\* (lines 464-474); a failed open skips the cycle.
RegTick ==
    /\ rpc = "select"
    /\ polls < MaxPolls
    /\ polls' = polls + 1
    /\ regAtTick' = reg
    /\ observed' = [n \in ValueNames |-> Unread]
    /\ rcyc' = [NoRegCycle EXCEPT !.pending = LeftDrifted]
    /\ cmdLog' = NoCmd
    /\ IF OpenKey("query")
       THEN /\ key' = "query"
            /\ rpc' = "poll"
            /\ idx' = 1
            /\ changed' = FALSE
            /\ changedValues' = <<>>
            /\ hasExpectValueMismatch' = FALSE
       ELSE UNCHANGED <<key, rpc, idx, changed, changedValues,
                        hasExpectValueMismatch>>
    /\ UNCHANGED <<rcfg, valueMap, typeMismatch, attempt, lastErr, rctxDone,
                   reg, acl, regEvents, seeded>>
    /\ UNCHANGED <<procVars, rootVars, codecVars>>

\* continue of the poll loop over config.Values, or the end of the loop.
RegNextValue ==
    IF idx < Len(rcfg.Values)
    THEN idx' = idx + 1 /\ rpc' = "poll"
    ELSE idx' = idx /\ rpc' = "effect"

\* The snapshot with which the detection branch enters the restore loop.
SnapshotOnDriftObserved(vc, val) ==
    [valueMap EXCEPT ![vc.Name] = InitialSnapshot(vc.Type, val)]

\* The snapshot as the detection branch leaves it (lines 543-550): the
\* branch sets the flags and the list and assigns nothing to valueMap.
SnapshotOnDrift(vc, val) == valueMap

\* A bootstrap that writes the value and leaves the snapshot as it was.
SnapshotOnBootstrapKept(vc) == valueMap

\* The snapshot after the poll loop has created a missing value (line 515).
SnapshotOnBootstrap(vc) == [valueMap EXCEPT ![vc.Name] = vc.ExpectValue]

\* What one iteration of the poll loop does to the value vc (lines 477-547):
\* the read, the creation of a missing value, the two mismatch flags and the
\* decision to enforce.
PollOutcome(vc) ==
    LET name == vc.Name
        r == GetValue(key, reg[name])
        s == setRegistryValue(vc.Type, vc.ExpectValue)
        oldVal == valueMap[name]
        tm == r.valType # getRegistryValueType(vc.Type)
        vm == oldVal = NoEntry \/ ~compareValues(oldVal, r.val, vc.Type)
        same == [key |-> key, reg |-> reg, valueMap |-> valueMap,
                 changed |-> changed, changedValues |-> changedValues,
                 flag |-> hasExpectValueMismatch, tm |-> FALSE, vm |-> FALSE,
                 enforce |-> FALSE, wrote |-> FALSE, mark |-> FALSE]
    IN  IF getRegistryValueType(vc.Type) = "error" THEN same
        ELSE IF r.err # "nil"
        THEN IF r.err = "ErrNotExist" /\ vc.ExpectValue # GoNil
             THEN IF ~OpenKey("set") THEN [same EXCEPT !.key = "invalid"]
                  ELSE IF ~s.ok THEN [same EXCEPT !.key = "set"]
                  ELSE IF ~OpenKey("query")
                  THEN [same EXCEPT !.key = "invalid",
                                    !.reg = [reg EXCEPT ![name] = s.stored],
                                    !.wrote = TRUE]
                  ELSE [same EXCEPT !.key = "query",
                                    !.reg = [reg EXCEPT ![name] = s.stored],
                                    !.wrote = TRUE,
                                    !.valueMap = SnapshotOnBootstrap(vc),
                                    !.changed = TRUE, !.mark = TRUE,
                                    !.changedValues = Append(changedValues, name)]
             ELSE same
        ELSE IF vc.ExpectValue # GoNil /\ (tm \/ vm)
        THEN [same EXCEPT !.tm = tm, !.vm = vm, !.enforce = TRUE,
                          !.valueMap = SnapshotOnDrift(vc, r.val),
                          !.flag = TRUE, !.changed = TRUE, !.mark = TRUE,
                          !.changedValues = Append(changedValues, name)]
        ELSE [same EXCEPT !.tm = tm, !.vm = vm]

\* One iteration of the poll loop, up to the restore loop.
RegPollValue ==
    /\ rpc = "poll"
    /\ LET vc == rcfg.Values[idx]
           o == PollOutcome(vc)
       IN  /\ key' = o.key
           /\ reg' = o.reg
           /\ valueMap' = o.valueMap
           /\ changed' = o.changed
           /\ changedValues' = o.changedValues
           /\ hasExpectValueMismatch' = o.flag
           /\ typeMismatch' = o.tm
           /\ observed' = [observed EXCEPT ![vc.Name] =
                             IF \/ key = "invalid"
                                \/ getRegistryValueType(vc.Type) = "error"
                             THEN Unread ELSE reg[vc.Name]]
           /\ rcyc' = [rcyc EXCEPT
                         !.enforced = IF o.enforce THEN @ \cup {vc.Name} ELSE @,
                         !.mismatch = IF o.vm THEN @ \cup {vc.Name} ELSE @,
                         !.marked = IF o.mark THEN @ \cup {vc.Name} ELSE @,
                         !.writes = IF o.wrote THEN @ \cup {vc.Name} ELSE @]
           /\ IF o.enforce
              THEN rpc' = "restore" /\ idx' = idx
              ELSE RegNextValue
    /\ attempt' = 1
    /\ lastErr' = FALSE
    /\ UNCHANGED <<rcfg, rctxDone, acl, polls, regEvents, seeded, regAtTick,
                   cmdLog>>
    /\ UNCHANGED <<procVars, rootVars, codecVars>>

\* One attempt of the restore loop on the value vc (lines 555-579): reopen
\* with write intent, write the expected value, read back and verify. The
\* read-back again binds GetValue's byte count to val, and typeMismatch is
\* still the flag computed before the write.
RestoreOutcome(vc) ==
    LET name == vc.Name
        s == setRegistryValue(vc.Type, vc.ExpectValue)
        r == GetValue("set", s.stored)
        same == [key |-> key, reg |-> reg, valueMap |-> valueMap,
                 lastErr |-> lastErr, break |-> FALSE, wrote |-> FALSE]
    IN  IF ~OpenKey("set")
        THEN [same EXCEPT !.key = "invalid", !.lastErr = TRUE]
        ELSE IF ~s.ok
        THEN [same EXCEPT !.key = "invalid", !.lastErr = TRUE]
        ELSE IF r.err = "nil" /\ ~typeMismatch
                /\ compareValues(r.val, vc.ExpectValue, vc.Type)
        THEN [same EXCEPT !.key = "set",
                          !.reg = [reg EXCEPT ![name] = s.stored],
                          !.wrote = TRUE,
                          !.valueMap = [valueMap EXCEPT ![name] = vc.ExpectValue],
                          !.lastErr = FALSE,
                          !.break = TRUE]
        ELSE [same EXCEPT !.key = "set",
                          !.reg = [reg EXCEPT ![name] = s.stored],
                          !.wrote = TRUE]

\* for attempt := 1; attempt <= 3; attempt++ (line 554), one iteration.
RegRestoreAttempt ==
    /\ rpc = "restore"
    /\ attempt <= MaxAttempts
    /\ LET vc == rcfg.Values[idx]
           o == RestoreOutcome(vc)
       IN  /\ key' = o.key
           /\ reg' = o.reg
           /\ valueMap' = o.valueMap
           /\ lastErr' = o.lastErr
           /\ rcyc' = [rcyc EXCEPT
                         !.writes = IF o.wrote THEN @ \cup {vc.Name} ELSE @,
                         !.verified = IF o.break THEN @ \cup {vc.Name} ELSE @]
           /\ rpc' = IF o.break \/ attempt = MaxAttempts THEN "after" ELSE "restore"
    /\ attempt' = attempt + 1
    /\ UNCHANGED <<rcfg, idx, changed, changedValues, hasExpectValueMismatch,
                   typeMismatch, rctxDone, acl, polls, regEvents, seeded,
                   regAtTick, observed, cmdLog>>
    /\ UNCHANGED <<procVars, rootVars, codecVars>>

\* After the restore loop (lines 582-600): the ALL_ACCESS write when lastErr
\* is set, then the read-only reopen, then the next value.
RegAfterRestore ==
    /\ rpc = "after"
    /\ LET vc == rcfg.Values[idx]
           s == setRegistryValue(vc.Type, vc.ExpectValue)
           fallback == lastErr /\ OpenKey("all") /\ s.ok
       IN  /\ reg' = IF fallback THEN [reg EXCEPT ![vc.Name] = s.stored] ELSE reg
           /\ valueMap' = IF fallback
                          THEN [valueMap EXCEPT ![vc.Name] = vc.ExpectValue]
                          ELSE valueMap
           /\ rcyc' = [rcyc EXCEPT
                         !.writes = IF fallback THEN @ \cup {vc.Name} ELSE @,
                         !.verified = IF fallback THEN @ \cup {vc.Name} ELSE @]
    /\ key' = IF OpenKey("query") THEN "query" ELSE "invalid"
    /\ RegNextValue
    /\ typeMismatch' = FALSE
    /\ attempt' = 1
    /\ lastErr' = FALSE
    /\ UNCHANGED <<rcfg, changed, changedValues, hasExpectValueMismatch,
                   rctxDone, acl, polls, regEvents, seeded, regAtTick, observed,
                   cmdLog>>
    /\ UNCHANGED <<procVars, rootVars, codecVars>>

\* strings.Join(elems, sep): the elements with sep between neighbours.
RECURSIVE Join(_, _)

Join(elems, sep) ==
    IF Len(elems) = 0 THEN <<>>
    ELSE IF Len(elems) = 1 THEN <<elems[1]>>
    ELSE <<elems[1], sep>> \o Join(Tail(elems), sep)

\* CHANGED_VALUES naming every configured value, changed or not.
ChangedValuesEnvAll ==
    Join([i \in 1..Len(rcfg.Values) |-> rcfg.Values[i].Name], ",")

\* The value of CHANGED_VALUES handed to the command (line 620).
ChangedValuesEnv == Join(changedValues, ",")

\* EXPECT_VALUE_MATCH with the negation dropped.
ExpectValueMatchInverted == hasExpectValueMismatch

\* The value of EXPECT_VALUE_MATCH handed to the command (line 621).
ExpectValueMatch == ~hasExpectValueMismatch

\* An end of the cycle that launches the command whether or not anything
\* changed and whatever the switch says.
RegSideEffectUnconditional ==
    /\ rpc = "effect"
    /\ key' = "invalid"
    /\ cmdLog' = [launched |-> TRUE, changedValues |-> changedValues,
                  match |-> ExpectValueMatch, env |-> ChangedValuesEnv]
    /\ rcyc' = [rcyc EXCEPT !.ended = TRUE]
    /\ rpc' = "select"
    /\ UNCHANGED <<rcfg, valueMap, idx, regLocals, rctxDone, reg, acl, polls,
                   regEvents, seeded, regAtTick, observed>>
    /\ UNCHANGED <<procVars, rootVars, codecVars>>

\* The end of the cycle (lines 604-635): close the key and launch the
\* command when something changed and the switch and the command are set.
RegSideEffect ==
    /\ rpc = "effect"
    /\ key' = "invalid"
    /\ cmdLog' = IF changed /\ rcfg.ExecuteOnChange /\ rcfg.Command # ""
                 THEN [launched |-> TRUE, changedValues |-> changedValues,
                       match |-> ExpectValueMatch, env |-> ChangedValuesEnv]
                 ELSE NoCmd
    /\ rcyc' = [rcyc EXCEPT !.ended = TRUE]
    /\ rpc' = "select"
    /\ UNCHANGED <<rcfg, valueMap, idx, regLocals, rctxDone, reg, acl, polls,
                   regEvents, seeded, regAtTick, observed>>
    /\ UNCHANGED <<procVars, rootVars, codecVars>>

\* case <-ctx.Done() (lines 637-639): main has cancelled the context and the
\* select takes that case. The task looks at its context nowhere else.
RegDone ==
    /\ rpc = "select"
    /\ rctxDone' = TRUE
    /\ rpc' = "done"
    /\ UNCHANGED <<rcfg, valueMap, key, idx, regLocals, reg, acl, regHistory>>
    /\ UNCHANGED <<procVars, rootVars, codecVars>>

----------------------------------------------------------------------------
(* The registry key on the host: other writers, the administrator *)

RegEvent ==
    /\ regEvents < MaxRegEvents
    /\ rpc # "done"
    /\ regEvents' = regEvents + 1
    /\ rcyc' = [rcyc EXCEPT !.quiet = FALSE]
    /\ UNCHANGED <<rcfg, rpc, valueMap, key, idx, regLocals, rctxDone, polls,
                   seeded, regAtTick, observed, cmdLog>>
    /\ UNCHANGED <<procVars, rootVars, codecVars>>

\* Another program sets or deletes a value of the key.
ExternalWrite ==
    /\ RegEvent
    /\ \E n \in ValueNames : \E x \in HostValues(n) \ {reg[n]} :
          reg' = [reg EXCEPT ![n] = x]
    /\ UNCHANGED acl

\* The access the key grants the monitor changes.
AclChanges ==
    /\ RegEvent
    /\ \E a \in {"none", "ro", "rw"} \ {acl} : acl' = a
    /\ UNCHANGED reg

----------------------------------------------------------------------------
(* Supervision Root: main, and the tasks it starts, seen from main.         *)
(* A task is followed only through the places that matter to main: started, *)
(* waiting in its select, inside a restart or restore sequence, returned.   *)

\* Config as yaml.Unmarshal fills it: enable is a bool, false when the file
\* says false and also when the file says nothing.
Config ==
    [Processes : [1..NumProcesses -> [Enable : BOOLEAN]],
     RegistryMonitors : [1..NumRegistryMonitors -> [Enable : BOOLEAN]]]

GOOS == "windows"

InitRoot ==
    /\ config \in Config
    /\ loaded = config
    /\ mainPc = "normalise"
    /\ mi = 1
    /\ procTask = [i \in 1..NumProcesses |-> "none"]
    /\ regTask = [j \in 1..NumRegistryMonitors |-> "none"]
    /\ wg = 0
    /\ cancelled = FALSE
    /\ unfinished = {}

\* main is not part of the run.
RootIdle ==
    /\ config = CHOOSE c \in Config : TRUE
    /\ loaded = config
    /\ mainPc = "wait_signal"
    /\ mi = 1
    /\ procTask = [i \in 1..NumProcesses |-> "none"]
    /\ regTask = [j \in 1..NumRegistryMonitors |-> "none"]
    /\ wg = 0
    /\ cancelled = FALSE
    /\ unfinished = {}

\* for i := range config.Processes (lines 531-535), one iteration.
RootNormalise ==
    /\ mainPc = "normalise"
    /\ config' = IF ~config.Processes[mi].Enable
                 THEN [config EXCEPT !.Processes[mi].Enable = TRUE]
                 ELSE config
    /\ IF mi < NumProcesses
       THEN mi' = mi + 1 /\ mainPc' = "normalise"
       ELSE mi' = 1 /\ mainPc' = "start_processes"
    /\ UNCHANGED <<procTask, regTask, wg, cancelled, loaded, unfinished>>
    /\ UNCHANGED <<procVars, regVars, codecVars>>

\* for _, processConfig := range config.Processes (lines 581-588), one
\* iteration: go monitorProcess unless the target is not enabled.
RootStartProcess ==
    /\ mainPc = "start_processes"
    /\ procTask' = IF ~config.Processes[mi].Enable
                   THEN procTask
                   ELSE [procTask EXCEPT ![mi] = "entry"]
    /\ IF mi < NumProcesses
       THEN mi' = mi + 1 /\ mainPc' = "start_processes"
       ELSE mi' = 1 /\ mainPc' = "start_registry"
    /\ UNCHANGED <<config, regTask, wg, cancelled, loaded, unfinished>>
    /\ UNCHANGED <<procVars, regVars, codecVars>>

\* for _, regConfig := range config.RegistryMonitors (lines 591-597), one
\* iteration: wg.Add(1) and go MonitorRegistry.
RootStartRegistry ==
    /\ mainPc = "start_registry"
    /\ IF GOOS = "windows" /\ NumRegistryMonitors > 0
       THEN /\ wg' = wg + 1
            /\ regTask' = [regTask EXCEPT ![mi] = "start"]
       ELSE UNCHANGED <<wg, regTask>>
    /\ IF mi < NumRegistryMonitors
       THEN mi' = mi + 1 /\ mainPc' = "start_registry"
       ELSE mi' = 1 /\ mainPc' = "wait_signal"
    /\ UNCHANGED <<config, procTask, cancelled, loaded, unfinished>>
    /\ UNCHANGED <<procVars, regVars, codecVars>>

\* The restart and restore sequences that are in progress.
SequencesInProgress ==
    {<<"process", i>> : i \in {n \in 1..NumProcesses : procTask[n] = "restarting"}}
        \cup {<<"registry", j>> : j \in {n \in 1..NumRegistryMonitors : regTask[n] = "restore"}}

\* <-sigs, then cancel() (lines 600-602).
RootSignal ==
    /\ mainPc = "wait_signal"
    /\ cancelled' = TRUE
    /\ mainPc' = "grace"
    /\ unfinished' = SequencesInProgress
    /\ UNCHANGED <<config, mi, procTask, regTask, wg, loaded>>
    /\ UNCHANGED <<procVars, regVars, codecVars>>

\* time.Sleep(2 * time.Second) returns and main returns (lines 604-607),
\* which ends the program and every task with it; main waits on nothing else.
\* Two seconds are taken to be enough for a task to get through its start-up
\* and, once it waits in its select, to take the ctx.Done case; a restart
\* sequence (Sleep(RestartDelay), the start, Sleep(2s)) or a poll cycle with
\* its restore attempts (Sleep(100ms) between them) may last longer.
RootExit ==
    /\ mainPc = "grace"
    /\ \A i \in 1..NumProcesses : procTask[i] \notin {"entry", "select"}
    /\ \A j \in 1..NumRegistryMonitors : regTask[j] \notin {"start", "select"}
    /\ mainPc' = "exited"
    /\ UNCHANGED <<config, mi, procTask, regTask, wg, cancelled, loaded, unfinished>>
    /\ UNCHANGED <<procVars, regVars, codecVars>>

rootOnly == <<config, mainPc, mi, wg, cancelled, loaded>>


\* monitorProcess up to its select loop (main.go:302-330).
ProcTaskEntry ==
    /\ mainPc # "exited"
    /\ \E i \in 1..NumProcesses :
          /\ procTask[i] = "entry"
          /\ procTask' = [procTask EXCEPT ![i] = "select"]
    /\ unfinished' = unfinished
    /\ UNCHANGED <<rootOnly, regTask>>
    /\ UNCHANGED <<procVars, regVars, codecVars>>

\* A tick that finds a restart is needed: the restart sequence begins
\* (main.go:407-409).
ProcTaskRestart ==
    /\ mainPc # "exited"
    /\ \E i \in 1..NumProcesses :
          /\ procTask[i] = "select"
          /\ procTask' = [procTask EXCEPT ![i] = "restarting"]
    /\ unfinished' = unfinished
    /\ UNCHANGED <<rootOnly, regTask>>
    /\ UNCHANGED <<procVars, regVars, codecVars>>

\* The restart sequence ends (main.go:411-444) and the task is back in select.
ProcTaskRestarted ==
    /\ mainPc # "exited"
    /\ \E i \in 1..NumProcesses :
          /\ procTask[i] = "restarting"
          /\ procTask' = [procTask EXCEPT ![i] = "select"]
          /\ unfinished' = unfinished \ {<<"process", i>>}
    /\ UNCHANGED <<rootOnly, regTask>>
    /\ UNCHANGED <<procVars, regVars, codecVars>>

\* case <-ctx.Done() of monitorProcess (main.go:449-457).
ProcTaskShutdown ==
    /\ mainPc # "exited"
    /\ cancelled
    /\ \E i \in 1..NumProcesses :
          /\ procTask[i] = "select"
          /\ procTask' = [procTask EXCEPT ![i] = "done"]
    /\ unfinished' = unfinished
    /\ UNCHANGED <<rootOnly, regTask>>
    /\ UNCHANGED <<procVars, regVars, codecVars>>

\* MonitorRegistry up to its select loop (registry_monitor.go:360-462); when
\* the root key is not a known one (lines 366-370) or the key cannot be
\* opened (lines 377-381) it returns at once, and the deferred wg.Done runs.
RegTaskStart ==
    /\ mainPc # "exited"
    /\ \E j \in 1..NumRegistryMonitors :
          /\ regTask[j] = "start"
          /\ \E outcome \in {"bad_root_key", "open_failed", "opened"} :
                IF outcome = "opened"
                THEN /\ regTask' = [regTask EXCEPT ![j] = "select"]
                     /\ wg' = wg
                ELSE /\ regTask' = [regTask EXCEPT ![j] = "done"]
                     /\ wg' = wg - 1
    /\ UNCHANGED <<config, mainPc, mi, cancelled, loaded, procTask, unfinished>>
    /\ UNCHANGED <<procVars, regVars, codecVars>>

\* case <-ticker.C (registry_monitor.go:464-477): a poll cycle begins.
RegTaskTick ==
    /\ mainPc # "exited"
    /\ \E j \in 1..NumRegistryMonitors :
          /\ regTask[j] = "select"
          /\ regTask' = [regTask EXCEPT ![j] = "cycle"]
    /\ unfinished' = unfinished
    /\ UNCHANGED <<rootOnly, procTask>>
    /\ UNCHANGED <<procVars, regVars, codecVars>>

\* The cycle finds a drifted value and enters the restore loop
\* (registry_monitor.go:548-554).
RegTaskRestore ==
    /\ mainPc # "exited"
    /\ \E j \in 1..NumRegistryMonitors :
          /\ regTask[j] = "cycle"
          /\ regTask' = [regTask EXCEPT ![j] = "restore"]
    /\ unfinished' = unfinished
    /\ UNCHANGED <<rootOnly, procTask>>
    /\ UNCHANGED <<procVars, regVars, codecVars>>

\* The restore loop and its fallback are over (registry_monitor.go:554-600).
RegTaskRestored ==
    /\ mainPc # "exited"
    /\ \E j \in 1..NumRegistryMonitors :
          /\ regTask[j] = "restore"
          /\ regTask' = [regTask EXCEPT ![j] = "cycle"]
          /\ unfinished' = unfinished \ {<<"registry", j>>}
    /\ UNCHANGED <<rootOnly, procTask>>
    /\ UNCHANGED <<procVars, regVars, codecVars>>

\* The cycle is over, side effect included (registry_monitor.go:602-636).
RegTaskCycleEnd ==
    /\ mainPc # "exited"
    /\ \E j \in 1..NumRegistryMonitors :
          /\ regTask[j] = "cycle"
          /\ regTask' = [regTask EXCEPT ![j] = "select"]
    /\ unfinished' = unfinished
    /\ UNCHANGED <<rootOnly, procTask>>
    /\ UNCHANGED <<procVars, regVars, codecVars>>

\* A return on cancellation that leaves the WaitGroup as it is.
RegTaskShutdownNoDone ==
    /\ mainPc # "exited"
    /\ cancelled
    /\ \E j \in 1..NumRegistryMonitors :
          /\ regTask[j] = "select"
          /\ regTask' = [regTask EXCEPT ![j] = "done"]
          /\ wg' = wg
    /\ UNCHANGED <<config, mainPc, mi, cancelled, loaded, procTask, unfinished>>
    /\ UNCHANGED <<procVars, regVars, codecVars>>

\* case <-ctx.Done() of MonitorRegistry (registry_monitor.go:637-639); the
\* deferred wg.Done runs (line 361).
RegTaskShutdown ==
    /\ mainPc # "exited"
    /\ cancelled
    /\ \E j \in 1..NumRegistryMonitors :
          /\ regTask[j] = "select"
          /\ regTask' = [regTask EXCEPT ![j] = "done"]
          /\ wg' = wg - 1
    /\ UNCHANGED <<config, mainPc, mi, cancelled, loaded, procTask, unfinished>>
    /\ UNCHANGED <<procVars, regVars, codecVars>>

----------------------------------------------------------------------------
(* The value codec called on its own: compareValues and setRegistryValue   *)
(* applied to arguments of every shape.                                     *)

\* The Go values tried as actual and as expected value: what a YAML document
\* and a registry read can produce.
GoValues ==
    { GoNil,
      GoString(<<>>), GoString(Str4), GoString(StrAB),
      GoInt(4), GoInt(7), GoUint32(4),
      GoFloat64(4, 0), GoFloat64(4, 5),
      GoBytes(StrAB),
      GoStrings(<<StrAB>>), GoStrings(<<Str4, StrAB>>),
      GoList(<<GoString(StrAB)>>), GoList(<<GoInt(4)>>) }

\* The kind strings tried: the six kinds, one in capitals, one unknown.
KindStrings ==
    {"string", "expand_string", "binary", "dword", "qword", "multi_string",
     "DWORD", "text"}

NoReturn == [equal |-> FALSE, write |-> [ok |-> FALSE, stored |-> Absent]]

InitCodec ==
    /\ args \in [actual : GoValues, expect : GoValues, valueType : KindStrings]
    /\ ret = NoReturn
    /\ called = FALSE

\* No call of the codec on its own.
CodecIdle ==
    /\ args = [actual |-> GoNil, expect |-> GoNil, valueType |-> "string"]
    /\ ret = NoReturn
    /\ called = TRUE

\* compareValues(actual, expect, valueType) and
\* setRegistryValue(k, name, valueType, expect) on a writable key.
CallCodec ==
    /\ ~called
    /\ called' = TRUE
    /\ ret' = [equal |-> compareValues(args.actual, args.expect, args.valueType),
               write |-> setRegistryValue(args.valueType, args.expect)]
    /\ UNCHANGED args
    /\ UNCHANGED <<procVars, regVars, rootVars>>

----------------------------------------------------------------------------
(* Specifications *)

Init == InitProc /\ RegIdle /\ RootIdle /\ CodecIdle

Next ==
    \/ MonitorEntry
    \/ StartCheckRunning
    \/ StartCheckExclude
    \/ StartSpawn
    \/ PollTick
    \/ KillCurrent
    \/ KillExisting
    \/ RestartDelay
    \/ Shutdown
    \/ ExclusionStarts
    \/ ExclusionStops
    \/ OtherInstanceChanges
    \/ OwnedExits
    \/ ProcessTableChanges
    \/ ExecutableChanges
    \/ PortChanges
    \/ HealthChanges
    \/ Cancel

Spec == Init /\ [][Next]_vars

InitRegistry == ProcIdle /\ InitReg /\ RootIdle /\ CodecIdle

NextReg ==
    \/ RegStart
    \/ RegInitValue
    \/ RegTick
    \/ RegPollValue
    \/ RegRestoreAttempt
    \/ RegAfterRestore
    \/ RegSideEffect
    \/ RegDone
    \/ ExternalWrite
    \/ AclChanges

SpecReg == InitRegistry /\ [][NextReg]_vars

InitMain == ProcIdle /\ RegIdle /\ InitRoot /\ CodecIdle

NextRoot ==
    \/ RootNormalise
    \/ RootStartProcess
    \/ RootStartRegistry
    \/ RootSignal
    \/ RootExit
    \/ ProcTaskEntry
    \/ ProcTaskRestart
    \/ ProcTaskRestarted
    \/ ProcTaskShutdown
    \/ RegTaskStart
    \/ RegTaskTick
    \/ RegTaskRestore
    \/ RegTaskRestored
    \/ RegTaskCycleEnd
    \/ RegTaskShutdown

SpecRoot == InitMain /\ [][NextRoot]_vars

\* The tasks make progress.  A step inside the code of a task is taken (weak
\* fairness): every sleep, process call and registry call returns; a poll
\* cycle, going over a finite list of values, comes to its end (strong
\* fairness, the cycle passing through its restore loops); and a task waiting
\* in its select with the context cancelled takes the ctx.Done case in the
\* end (strong fairness): select chooses at random among the cases that are
\* ready.  Fairness is asked of each kind of step, not of each task: a task
\* returns once, so the other tasks cannot take its place for ever.
TaskFairness ==
    /\ WF_vars(ProcTaskEntry)
    /\ WF_vars(ProcTaskRestarted)
    /\ SF_vars(ProcTaskShutdown)
    /\ WF_vars(RegTaskStart)
    /\ WF_vars(RegTaskRestored)
    /\ SF_vars(RegTaskCycleEnd)
    /\ SF_vars(RegTaskShutdown)

\* A configuration with every target enabled; main starts the same tasks for
\* every configuration (lines 530-535 and 590-597).
InitMainLive ==
    /\ InitMain
    /\ \A i \in 1..NumProcesses : config.Processes[i].Enable
    /\ \A j \in 1..NumRegistryMonitors : config.RegistryMonitors[j].Enable

SpecRootLive == InitMainLive /\ [][NextRoot]_vars /\ TaskFairness

InitCodecOnly == ProcIdle /\ RegIdle /\ RootIdle /\ InitCodec

NextCodec == CallCodec

SpecCodec == InitCodecOnly /\ [][NextCodec]_vars

----------------------------------------------------------------------------
(* Claims about the process supervisor, checked under Spec *)

\* C1: every successful spawn, initial or restart, happened in a start attempt
\* whose own exclusion check ran and saw no process of exclude_processes in
\* the process table: the check is made afresh in each attempt.  (A process
\* table that cannot be enumerated shows the gate nothing.)
C1_SpawnOnlyAfterFreshExclusionCheck ==
    spawnCount > 0 => lastSpawn.check \in {"clear", "present_enumfail"}

\* C1 witness: a restart attempt spawned the target, exclusions configured,
\* in the poll cycle after an attempt that the gate had refused.
C1_Witness ==
    /\ cfg.ExcludeProcesses # {}
    /\ lastSpawn.isRestart
    /\ lastSpawn.check = "clear"
    /\ cyc.afterRefusal /\ cyc.spawned

\* C2: a start refused by the exclusion gate is not retried before the next
\* poll tick, and a poll cycle that follows a refusal and runs with the
\* exclusion gone, the target not running and every OS call succeeding ends
\* with the target spawned.
C2_RefusedStartRetriedAtNextPoll ==
    /\ ~refusal.early
    /\ (pc = "select" /\ cyc.afterRefusal /\ cyc.clean) => cyc.spawned

\* C2 witness: back in the select loop after such a cycle, the target spawned.
C2_Witness ==
    /\ pc = "select"
    /\ cyc.afterRefusal /\ cyc.clean /\ cyc.spawned
    /\ currentCmd = "cmd"

\* C3: when a process matching the target's name is running as the task
\* starts, the entry phase launches nothing and leaves no owned handle: until
\* the first tick the task sits in the select loop (or has shut down).
C3_AlreadyRunningSkipsInitialStart ==
    (entryResult = "already_running" /\ ticks = 0) =>
        /\ spawnCount = 0
        /\ currentCmd = "nil"
        /\ pc \in {"select", "done"}

\* C3 witness: the entry phase found the target running and went to polling.
C3_Witness ==
    /\ entryResult = "already_running"
    /\ pc = "select"
    /\ ticks = 0
    /\ host.others

\* C14: the step in which the task observes cancellation kills the owned
\* process, and has waited for its exit when it returns, if kill_on_exit is
\* set and the task holds a handle; otherwise it kills nothing and leaves every
\* process as it is.
C14_ShutdownHonoursKillOnExit ==
    [][ (pc = "select" /\ pc' = "done") =>
           IF cfg.KillOnExit /\ currentCmd # "nil"
           THEN ~host'.ownedAlive /\ "shutdown" \in kills'
           ELSE host' = host /\ kills' = kills ]_vars

\* A task that has returned after killing the process it had launched.
C14_Witness ==
    /\ pc = "done"
    /\ cfg.KillOnExit
    /\ currentCmd # "nil"
    /\ "shutdown" \in kills
    /\ ~host.ownedAlive

\* C15: with kill_on_exit set, once the task has returned on cancellation no
\* process of the target is left running, whether the task launched it or
\* found it running; stated for the runs in which the host changes nothing
\* by itself.
C15_NoSupervisedProcessLeftRunning ==
    (pc = "done" /\ cfg.KillOnExit /\ envEvents = 0)
    => (~NameMatched /\ ~host.ownedAlive)

\* The task is inside a restart sequence (main.go:407-444).
InRestartSequence ==
    \/ pc \in {"kill_current", "kill_existing", "delay"}
    \/ pc \in {"sp_running", "sp_excl", "sp_spawn"} /\ isRestart

\* C20: within one target's task no two restart sequences overlap:
\* isRestarting is true exactly while a restart sequence is in progress, no
\* poll tick is taken while one is in progress, and a restart sequence begins
\* only from the select loop with none in progress.
C20_NoOverlappingRestartSequences ==
    /\ [](isRestarting <=> InRestartSequence)
    /\ [][ (ticks' # ticks) => (pc = "select" /\ ~isRestarting) ]_vars
    /\ [][ (pc' = "kill_current" /\ pc # "kill_current")
              => (pc = "select" /\ ~isRestarting /\ isRestarting') ]_vars

\* A second restart sequence is in progress after a completed one.
C20_Witness ==
    /\ InRestartSequence
    /\ isRestarting
    /\ lastSpawn.isRestart
    /\ ticks > 1

C22_InitialStartLaunchesName ==
    spawnCount > 0 =>
        lastSpawn.exe = IF lastSpawn.isRestart /\ cfg.RestartCommand # ""
                        THEN cfg.RestartCommand
                        ELSE TargetName

\* C23: while a process of the exclusion list is running the restart of the
\* target is skipped as a whole: the target is not killed.  (With no change of
\* the environment since the task began, the exclusion process has been
\* running all along.)
C23_ExclusionSkipsWholeRestart ==
    (/\ envEvents = 0
     /\ host.tableOK
     /\ cfg.ExcludeProcesses \cap host.exclRunning # {})
        => kills \cap {"owned", "others"} = {}

\* The steps of a restart sequence up to the spawn follow one another in the
\* order of the code: each position is entered only from the one before it,
\* the handle is killed and dropped, the delay is not skipped, and the spawn
\* follows an exclusion check that found nothing.
RestartStepsInOrder ==
    /\ (pc' = "kill_existing" /\ pc # "kill_existing") =>
          /\ pc = "kill_current"
          /\ currentCmd # "nil" =>
                (currentCmd' = "nil" /\ ~host'.ownedAlive /\ "owned" \in kills')
    /\ (pc' = "delay" /\ pc # "delay") => pc = "kill_existing"
    /\ (pc' = "sp_running" /\ pc # "sp_running" /\ isRestart') =>
          \/ pc = "delay"
          \/ pc = "kill_existing" /\ cfg.RestartDelay = 0
    /\ (pc' = "sp_excl" /\ pc # "sp_excl") => pc = "sp_running"
    /\ (pc' = "sp_spawn" /\ pc # "sp_spawn") =>
          /\ pc = "sp_excl"
          /\ ~checkExcludeProcesses(cfg.ExcludeProcesses).has
    /\ spawnCount' # spawnCount => pc = "sp_spawn"

C30_SpawnAfterKillSweepDelayGateAmended ==
    [][ /\ RestartStepsInOrder
        /\ (pc = "kill_existing" /\ pc' # pc) =>
              IF host.tableOK THEN ~host'.others ELSE host' = host ]_vars

\* A replacement was spawned by a restart sequence with a restart delay, after
\* the owned handle and another instance had been killed.
C30_Witness ==
    /\ pc = "select"
    /\ cyc.spawned
    /\ lastSpawn.isRestart
    /\ cfg.RestartDelay > 0
    /\ kills = {"owned", "others"}

\* C31: if the process the supervisor owns has exited, the next poll marks
\* needRestart (the restart sequence begins), whether or not some other
\* process in the process table still matches the target's name.
C31_OwnedExitMarksNeedRestart ==
    [][ (/\ ticks' # ticks
         /\ ~isRestarting
         /\ currentCmd # "nil"
         /\ ~host.ownedAlive)
           => (isRestarting' /\ pc' = "kill_current") ]_vars

\* C32: a target that was (re)started through restart_command, whose launched
\* process stays alive and whose ports and health checks all pass, is not
\* restarted at a following poll: the tick leaves the task in the select loop
\* with that handle.  (Stated for the ticks at which the process table can be
\* enumerated.)
C32_RestartCommandTargetStaysRunning ==
    [][ (/\ ticks' # ticks
         /\ ~isRestarting
         /\ cfg.RestartCommand # ""
         /\ currentCmd # "nil"
         /\ lastSpawn.exe = cfg.RestartCommand
         /\ host.ownedAlive
         /\ host.tableOK
         /\ Len(cfg.Ports) > 0 => host.portUp
         /\ Len(cfg.HealthChecks) > 0 => host.healthUp)
           => (/\ ~isRestarting'
               /\ pc' = "select"
               /\ currentCmd' = currentCmd) ]_vars

\* C40: the exclusion gate fails open.  A gate that cannot enumerate the
\* process table reports nothing found for a non-empty exclusion list, and
\* the start attempt goes on to cmd.Start, which spawns the target when the
\* executable can be started; with an empty list the gate reports nothing
\* found without enumerating the process table, whatever state it is in.
C40_ExclusionGateFailsOpen ==
    [][ /\ (pc = "sp_excl" /\ pc' # pc /\ cfg.ExcludeProcesses # {} /\ ~host.tableOK)
             => (/\ pc' = "sp_spawn"
                 /\ att'.enumerated
                 /\ refusal' = refusal)
        /\ (pc = "sp_excl" /\ pc' # pc /\ cfg.ExcludeProcesses = {})
             => (pc' = "sp_spawn" /\ ~att'.enumerated)
        /\ (pc = "sp_spawn" /\ pc' # pc /\ host.spawnOK)
             => (spawnCount' = spawnCount + 1 /\ currentCmd' = "cmd") ]_vars

\* The target was spawned while a process of the exclusion list was running,
\* in an attempt whose gate could not enumerate the process table.
C40_Witness ==
    /\ spawnCount > 0
    /\ currentCmd = "cmd"
    /\ cfg.ExcludeProcesses \cap host.exclRunning # {}
    /\ att.enumerated
    /\ lastSpawn.check = "present_enumfail"

----------------------------------------------------------------------------
(* Claims about the registry enforcer, checked under SpecReg *)

\* The names of a CHANGED_VALUES list.
Names(list) == {list[i] : i \in 1..Len(list)}

\* The snapshot entry of the value vc holds the stored value st: it is the
\* Go value that is written as st, or it compares equal to what a read of st
\* returns.
SnapshotHolds(vc, st) ==
    /\ valueMap[vc.Name] # NoEntry
    /\ \/ setRegistryValue(vc.Type, valueMap[vc.Name]) = [ok |-> TRUE, stored |-> st]
       \/ compareValues(valueMap[vc.Name], GetValue("query", st).val, vc.Type)

\* C4: a value that equalled its expected value E when the enforcer started
\* and that an external actor then set to something else equals E again at the
\* end of the next poll cycle that ran with the key open to reads and writes.
C4_ExternalChangeRestoredByNextPoll ==
    \A i \in 1..Len(rcfg.Values) :
        LET vc == rcfg.Values[i] IN
        ( /\ rcyc.ended /\ rcyc.quiet /\ acl = "rw"
          /\ vc.ExpectValue # GoNil
          /\ seeded[vc.Name] = "equal"
          /\ regAtTick[vc.Name] \notin {Absent, ExpectStored(vc)} )
        => reg[vc.Name] = ExpectStored(vc)

\* C5: a value that exists at startup with a value other than its expected
\* value has been written with the expected value by the end of the first
\* poll cycle, with no external event at all.
C5_WrongValueAtStartupCorrectedByFirstPoll ==
    \A i \in 1..Len(rcfg.Values) :
        LET vc == rcfg.Values[i] IN
        ( /\ rcyc.ended /\ polls = 1 /\ regEvents = 0
          /\ seeded[vc.Name] = "differs" )
        => vc.Name \in rcyc.writes

\* C6: a value that startup created with its expected value is seeded in the
\* snapshot with it, and the poll that follows, absent external events, does
\* not write it, does not list it as changed and launches no command for it.
C6_CreatedValueQuietAtNextPoll ==
    \A i \in 1..Len(rcfg.Values) :
        LET vc == rcfg.Values[i] IN
        /\ seeded[vc.Name] = "created" /\ regEvents = 0
           => valueMap[vc.Name] = vc.ExpectValue
        /\ ( /\ rcyc.ended /\ polls = 1 /\ regEvents = 0
             /\ seeded[vc.Name] = "created" )
           => /\ vc.Name \notin rcyc.writes
              /\ vc.Name \notin Names(changedValues)
              /\ vc.Name \notin Names(cmdLog.changedValues)

\* C7: a poll cycle in which enforcement was triggered for some value launches
\* the command, when it is enabled, with EXPECT_VALUE_MATCH=false, whether or
\* not the restoration succeeded in that cycle.
C7_EnforcementReportsMismatch ==
    ( /\ rcyc.ended /\ rcyc.enforced # {}
      /\ rcfg.ExecuteOnChange /\ rcfg.Command # "" )
    => cmdLog.launched /\ ~cmdLog.match

\* A cycle that found a real drift, restored and verified it, and still
\* launched the command with EXPECT_VALUE_MATCH=false.
C7_Witness ==
    /\ rcyc.ended /\ cmdLog.launched /\ ~cmdLog.match
    /\ \E i \in 1..Len(rcfg.Values) :
          LET vc == rcfg.Values[i] IN
          /\ vc.Name \in rcyc.enforced \cap rcyc.verified
          /\ regAtTick[vc.Name] \notin {Absent, ExpectStored(vc)}
          /\ reg[vc.Name] = ExpectStored(vc)

\* C8: EXPECT_VALUE_MATCH of a launched command is true exactly when every
\* changed value that has an expected value was observed equal to it; stated
\* for the cycles in which every changed value was read.
C8_MatchFlagTracksObservedValues ==
    ( /\ cmdLog.launched
      /\ \A n \in Names(cmdLog.changedValues) : observed[n] \notin {Unread, Absent} )
    => ( cmdLog.match <=>
           \A i \in 1..Len(rcfg.Values) :
               LET vc == rcfg.Values[i] IN
               (vc.Name \in Names(cmdLog.changedValues) /\ vc.ExpectValue # GoNil)
               => observed[vc.Name] = ExpectStored(vc) )

\* C9: a monitoring-only value whose poll read differs from its snapshot is
\* listed as changed, launches the command when it is enabled, and is not
\* written.
C9_MonitoredValueChangeReported ==
    \A i \in 1..Len(rcfg.Values) :
        LET vc == rcfg.Values[i] IN
        ( /\ rcyc.ended
          /\ vc.ExpectValue = GoNil
          /\ valueMap[vc.Name] # NoEntry
          /\ vc.Name \in rcyc.mismatch )
        => /\ vc.Name \in Names(changedValues)
           /\ (rcfg.ExecuteOnChange /\ rcfg.Command # "")
              => (cmdLog.launched /\ vc.Name \in Names(cmdLog.changedValues))
           /\ vc.Name \notin rcyc.writes

\* C10: once a poll read of a value has succeeded the snapshot holds the
\* value read: before the first restoration attempt, and at the end of a
\* cycle in which no write of the value succeeded.
C10_SnapshotHoldsObservedValue ==
    /\ (rpc = "restore" /\ attempt = 1)
       => SnapshotHolds(rcfg.Values[idx], observed[rcfg.Values[idx].Name])
    /\ \A i \in 1..Len(rcfg.Values) :
          LET vc == rcfg.Values[i] IN
          ( /\ rcyc.ended
            /\ observed[vc.Name] \notin {Unread, Absent}
            /\ vc.Name \notin rcyc.writes )
          => SnapshotHolds(vc, observed[vc.Name])

\* C11: a restore sequence for a drifted value makes at most 3 regular attempts and stops at the
\* first attempt whose read-back matches the expected value, setting the
\* snapshot to the expected value there. An attempt reads back, in the same
\* step, what it has just written, so the read-back of an attempt whose write
\* succeeded is the expected value.
C11_RestoreStopsAtFirstMatchingReadBack ==
    (rpc = "restore" /\ observed[rcfg.Values[idx].Name] # ExpectStored(rcfg.Values[idx])) =>
        LET vc == rcfg.Values[idx] IN
        /\ attempt <= MaxAttempts
        /\ attempt > 1 => vc.Name \notin rcyc.writes
        /\ vc.Name \in rcyc.verified => valueMap[vc.Name] = vc.ExpectValue

\* C12: the ALL_ACCESS fallback is made exactly when all 3 regular attempts
\* failed, an attempt failing when its open fails, its write fails or its
\* read-back verification does not match. The fallback is decided after the
\* loop, where it is made when lastErr is set; no attempt succeeded when the
\* value is not among the verified ones.
C12_FallbackIffAllAttemptsFailed ==
    rpc = "after" =>
        (lastErr <=> rcfg.Values[idx].Name \notin rcyc.verified)

\* C13: when the 3 attempts and the fallback of a restoration sequence all
\* fail to write, the task goes on, the registry keeps the drifted value, and
\* the next poll cycle that reads the value, still drifted, starts a new
\* restoration sequence for it. The task ends only on cancellation once it
\* has polled.
C13_FailedRestoreRetriedAtNextPoll ==
    /\ (rpc = "done" /\ polls > 0) => rctxDone
    /\ \A n \in rcyc.enforced \ rcyc.writes :
          (rcyc.ended /\ rcyc.quiet) => reg[n] = observed[n]
    /\ \A n \in rcyc.pending :
          (rcyc.ended /\ observed[n] = regAtTick[n]) => n \in rcyc.enforced

\* A second cycle that starts a restoration sequence for a value that the
\* cycle before could not write and that really differs from its expected value.
C13_Witness ==
    /\ rcyc.ended
    /\ \E i \in 1..Len(rcfg.Values) :
          LET vc == rcfg.Values[i] IN
          /\ vc.Name \in rcyc.pending \cap rcyc.enforced
          /\ observed[vc.Name] = regAtTick[vc.Name]
          /\ observed[vc.Name] \notin {Absent, ExpectStored(vc)}

\* C24: at startup a value whose stored kind differs from its declared kind is
\* skipped: it gets no snapshot entry.  (Before the first poll and with no
\* external write, the key still holds what startup read.)
C24_KindMismatchAtStartupNotSeeded ==
    (rpc = "select" /\ polls = 0 /\ regEvents = 0) =>
        \A i \in 1..Len(rcfg.Values) :
            LET vc == rcfg.Values[i] IN
            ( /\ seeded[vc.Name] # "created"
              /\ reg[vc.Name] # Absent
              /\ reg[vc.Name].kind # getRegistryValueType(vc.Type) )
                => valueMap[vc.Name] = NoEntry

\* The names of the values the cycle marked changed, in configuration order.
MarkedInOrder ==
    SelectSeq([i \in 1..Len(rcfg.Values) |-> rcfg.Values[i].Name],
              LAMBDA n : n \in rcyc.marked)

\* C29: CHANGED_VALUES handed to the command is the comma-joined list of
\* exactly the names of the values marked changed in that cycle, each once,
\* in configuration order.
C29_ChangedValuesListsMarkedNamesInOrder ==
    (rcyc.ended /\ cmdLog.launched) =>
        /\ cmdLog.env = Join(MarkedInOrder, ",")
        /\ rcyc.marked # {}
        /\ rcyc.enforced \subseteq rcyc.marked

\* The command was launched for a cycle that marked both values.
C29_Witness ==
    /\ rcyc.ended
    /\ cmdLog.launched
    /\ rcyc.marked = ValueNames
    /\ cmdLog.env = <<"v1", ",", "v2">>

\* The ten accepted root key names and the six accepted kinds.
AcceptedRootKeys ==
    {"HKEY_CLASSES_ROOT", "HKCR", "HKEY_CURRENT_USER", "HKCU",
     "HKEY_LOCAL_MACHINE", "HKLM", "HKEY_USERS", "HKU",
     "HKEY_CURRENT_CONFIG", "HKCC"}

AcceptedKinds ==
    {"string", "expand_string", "binary", "dword", "multi_string", "qword"}

C33_SuccessfulWriteVerifies ==
    [][ LET vc == rcfg.Values[idx] IN
        (/\ rpc = "restore"
         /\ attempt' = attempt + 1
         /\ ~typeMismatch
         /\ reg'[vc.Name] = ExpectStored(vc)
         /\ vc.Name \in rcyc'.writes)
           => (/\ valueMap'[vc.Name] = vc.ExpectValue
               /\ rpc' = "after"
               /\ ~lastErr') ]_vars

\* C34: when enforcement is triggered because the stored kind differs from
\* the declared kind and the write of the expected value succeeds, the
\* attempt is recognised as successful: the retries stop after it and the
\* snapshot is the expected value.  (Stated for the attempts whose read-back
\* compares equal to the expected value.)
C34_KindMismatchWriteRecognised ==
    [][ LET vc == rcfg.Values[idx] IN
        (/\ rpc = "restore"
         /\ attempt' = attempt + 1
         /\ observed[vc.Name].kind # getRegistryValueType(vc.Type)
         /\ reg'[vc.Name] = ExpectStored(vc)
         /\ vc.Name \in rcyc'.writes
         /\ compareValues(GetValue("set", reg'[vc.Name]).val, vc.ExpectValue,
                          vc.Type))
           => (/\ valueMap'[vc.Name] = vc.ExpectValue
               /\ rpc' = "after") ]_vars

\* C35: after the enforcement of one value, whatever its outcome, the key is
\* open in polling (read) mode again when the next value is processed, and a
\* failure on one value never keeps the remaining values of the cycle from
\* being read: at the end of a cycle every value of an accepted kind has been
\* read.  (Stated for the cycles during which no external event happens and
\* the key grants the monitor at least read access.)
C35_FailureOnOneValueSkipsNoOther ==
    (rcyc.quiet /\ acl \in {"ro", "rw"}) =>
        /\ (rpc = "poll" /\ idx > 1 /\ rcfg.Values[idx - 1].Name \in rcyc.enforced)
              => key = "query"
        /\ rcyc.ended =>
              \A i \in 1..Len(rcfg.Values) :
                  ToLower(rcfg.Values[i].Type) \in AcceptedKinds
                      => observed[rcfg.Values[i].Name] # Unread

\* C36: a value with an expected value that a poll finds absent is written
\* with the expected value in that cycle, the snapshot is set to it and the
\* value is recorded as changed; and a cycle that only bootstraps, enforcing
\* nothing, leaves EXPECT_VALUE_MATCH true.  (Stated for the cycles during
\* which no external event happens and the key is open to reads and writes.)
C36_AbsentValueBootstrappedInPoll ==
    (rcyc.ended /\ rcyc.quiet /\ acl = "rw") =>
        /\ \A i \in 1..Len(rcfg.Values) :
              LET vc == rcfg.Values[i] IN
              (vc.ExpectValue # GoNil /\ observed[vc.Name] = Absent) =>
                 /\ vc.Name \in rcyc.writes
                 /\ reg[vc.Name] = ExpectStored(vc)
                 /\ valueMap[vc.Name] = vc.ExpectValue
                 /\ vc.Name \in Names(changedValues)
                 /\ changed
                 /\ (rcfg.ExecuteOnChange /\ rcfg.Command # "")
                       => vc.Name \in Names(cmdLog.changedValues)
        /\ rcyc.enforced = {} =>
              /\ ~hasExpectValueMismatch
              /\ cmdLog.launched => cmdLog.match

\* A cycle found v1 deleted, wrote its expected value again and launched the
\* command for it with EXPECT_VALUE_MATCH=true.
C36_Witness ==
    /\ rcyc.ended /\ rcyc.quiet /\ acl = "rw"
    /\ seeded["v1"] = "created"
    /\ observed["v1"] = Absent
    /\ "v1" \in rcyc.writes
    /\ reg["v1"] = ExpectStored(rcfg.Values[1])
    /\ valueMap["v1"] = rcfg.Values[1].ExpectValue
    /\ cmdLog.launched /\ cmdLog.match
    /\ cmdLog.changedValues = <<"v1">>

\* C37: the side-effect command is launched at most once per poll cycle, at
\* the end of the cycle when every value has been processed, and only in a
\* cycle in which at least one value was marked changed, execute_on_change is
\* set and a command is configured; the startup phase launches nothing; and
\* the step that launches it goes straight back to the select loop and leaves
\* the snapshot and the registry as they are.
C37_CommandOncePerCycleAfterAllValues ==
    [][ /\ (cmdLog'.launched /\ cmdLog' # cmdLog) =>
              /\ rpc = "effect" /\ rpc' = "select"
              /\ idx = Len(rcfg.Values)
              /\ polls > 0
              /\ ~cmdLog.launched /\ ~rcyc.ended
              /\ changed /\ rcyc.marked # {}
              /\ rcfg.ExecuteOnChange /\ rcfg.Command # ""
              /\ valueMap' = valueMap /\ reg' = reg
        /\ (rpc = "effect" /\ rpc' # rpc) =>
              (cmdLog'.launched <=>
                  (rcyc.marked # {} /\ rcfg.ExecuteOnChange /\ rcfg.Command # ""))
        /\ polls = 0 => ~cmdLog'.launched ]_vars

\* A cycle that marked a value has ended with the command launched, the task
\* back in its select loop.
C37_Witness ==
    /\ rpc = "select"
    /\ rcyc.ended
    /\ cmdLog.launched
    /\ rcyc.marked # {}
    /\ polls = MaxPolls

\* C39: when the key cannot be opened with read and write access at the
\* start of the enforcer, the task ends there and for good: it never polls
\* and never tries the open again.  When the key cannot be opened at the
\* start of a later poll, only that cycle is skipped (the snapshot and the
\* registry stay as they are, no command is launched) and the task stays in
\* its select loop, from where a later tick that can open the key polls.
C39_StartupOpenFailureFinalPollOpenFailureSkips ==
    [][ /\ (rpc = "start" /\ rpc' # rpc /\ acl # "rw")
              => (rpc' = "done" /\ key' = "invalid" /\ polls' = 0)
        /\ rpc = "done" => (rpc' = "done" /\ polls' = polls /\ key' = key)
        /\ (polls' # polls /\ acl = "none")
              => (/\ rpc = "select" /\ rpc' = "select"
                  /\ valueMap' = valueMap
                  /\ reg' = reg
                  /\ key' = key
                  /\ ~cmdLog'.launched)
        /\ (polls' # polls /\ acl # "none")
              => (rpc' = "poll" /\ key' = "query" /\ idx' = 1) ]_vars

\* The first tick could not open the key: the task is back in its select
\* loop with the snapshot of the startup and the handle of the startup.
C39_Witness ==
    /\ rpc = "select"
    /\ polls = 1
    /\ acl = "none"
    /\ key = "set"
    /\ valueMap["v1"] # NoEntry
    /\ ~cmdLog.launched
    /\ ~rcyc.ended

----------------------------------------------------------------------------
(* Claims about the supervision root, checked under SpecRoot *)

\* C16: after the termination signal the root does not exit before every
\* registry enforcer task it started has called Done on the WaitGroup: at the
\* root's exit the counter is back at zero and every started task has returned.
C16_RootWaitsForRegistryTasks ==
    mainPc = "exited" =>
        /\ wg = 0
        /\ \A j \in 1..NumRegistryMonitors : regTask[j] \in {"none", "done"}

\* C17: a restart sequence of a process target, or a registry restore
\* sequence, that is in progress when shutdown is requested runs to completion
\* before its task ends: the root never exits with a task inside one.
C17_ShutdownNeverInterruptsSequence ==
    mainPc = "exited" => unfinished = {}

\* C18: a process target whose configuration has enable: false never gets a
\* supervisor task.
C18_DisabledProcessGetsNoTask ==
    \A i \in 1..NumProcesses :
        ~loaded.Processes[i].Enable => procTask[i] = "none"

\* C19: a registry monitor entry whose configuration has enable: false never
\* gets an enforcer task.
C19_DisabledRegistryEntryGetsNoTask ==
    \A j \in 1..NumRegistryMonitors :
        ~loaded.RegistryMonitors[j].Enable => regTask[j] = "none"

\* The registry tasks main has started that have not returned.
RunningRegistryTasks ==
    {j \in 1..NumRegistryMonitors : regTask[j] \notin {"none", "done"}}

\* C38: after the shared cancellation signal every process supervisor task
\* and every registry enforcer task returns in the end, unless the program
\* exits first; and each registry task calls Done on the WaitGroup exactly
\* once on whichever path it returns (bad root key, key open failure,
\* cancellation): the counter is always the number of registry tasks that
\* were started and have not returned.
C38_TasksReturnAfterCancellation ==
    /\ [](wg = Cardinality(RunningRegistryTasks))
    /\ cancelled ~>
          \/ mainPc = "exited"
          \/ /\ \A i \in 1..NumProcesses : procTask[i] \in {"none", "done"}
             /\ \A j \in 1..NumRegistryMonitors : regTask[j] \in {"none", "done"}

\* Every task has returned after the cancellation, the program still running,
\* and the WaitGroup is back at zero.
C38_Witness ==
    /\ cancelled
    /\ mainPc = "grace"
    /\ \A i \in 1..NumProcesses : procTask[i] = "done"
    /\ \A j \in 1..NumRegistryMonitors : regTask[j] = "done"
    /\ wg = 0

----------------------------------------------------------------------------
(* Claims about the value codec, checked under SpecCodec *)

\* C26: setRegistryValue coerces as compareValues does, so an expected value
\* that compares equal to a registry value can also be written: whenever
\* compareValues(actual, expect, kind) is true for an expected value that is
\* set, setRegistryValue(kind, expect) succeeds.
C26_WriteCoercesAsCompareDoes ==
    (called /\ args.expect # GoNil /\ ret.equal) => ret.write.ok

\* C27: for every kind string, unknown ones included, and every actual value,
\* compareValues(v, nil, kind) is true.
C27_NilExpectationAlwaysMatches ==
    (called /\ args.expect = GoNil) => ret.equal

\* A comparison against nil was made for an unknown kind and an actual value
\* that no kind converts.
C27_Witness ==
    /\ called
    /\ args.expect = GoNil
    /\ args.valueType = "text"
    /\ args.actual = GoList(<<GoInt(4)>>)
    /\ ret.equal

\* The shapes the numeric conversions take: the number types, and a string
\* that begins with a decimal digit.
Numeric(x) ==
    \/ x.t \in {"int", "uint32", "float64"}
    \/ x.t = "string" /\ Len(x.v) > 0 /\ x.v[1] \in 0..9

====
